---- MODULE Spec2Model ----
(***************************************************************************)
(* grav1: the coordinator's project registry (project.py) and the worker   *)
(* pool of the client (client.py, grav1c.py) as state machines.            *)
(*                                                                         *)
(*   Spec        the registry: add, split, start, complete, check_job and  *)
(*               the action loop thread                                    *)
(*   FairSpec    Spec with the action loop thread scheduled fairly         *)
(*   SpecGetJob  Projects.get_job applied to drawn registries              *)
(*   SpecClient  the Workers of client.py under the menu of key_loop       *)
(*   SpecUpload  the Workers of client.py and the upload thread            *)
(*   SpecOverlap two check_job calls of the registry that overlap in time  *)
(*   SpecSerial  the action loop thread and threads that call Projects.add, *)
(*               each call taking time                                     *)
(*   SpecRefetch SpecUpload with a coordinator that hands one scene out    *)
(*               again whenever the exclusion list does not name it        *)
(*   SpecStop    the Workers of client.py under an "add" of the menu that  *)
(*               runs line by line, against the stop() of fetch_new_job    *)
(***************************************************************************)
EXTENDS Integers, Sequences, FiniteSets, TLC

\* ------------------------------------------------------------------ bounds
\* frames of a scene, and frames a decoder reports, range over 1..MaxFrames
MaxFrames == 2
\* job priorities range over 0..MaxPriority
MaxPriority == 1
\* entries of an exclusion list handed to get_job
MaxSkip == 2
\* clients recorded in one job's workers
MaxJobWorkers == 1

\* ------------------------------------------------------------- value sets
ProjectIds == {"p1", "p2"}
\* the projects handed to Projects.add by the registry specification
Submitted == {"p1"}
\* scene keys, in the order of the scenes dict
SceneOrder == <<"s1", "s2">>
Clients == {"c1", "c2"}

Range(seq) == {seq[i] : i \in 1..Len(seq)}

Scenes == Range(SceneOrder)

VARIABLES
  projects,       \* Projects.projects: the registered ids, in insertion order
  project,        \* the Project objects, by id
  fs,             \* the files: split directory, encoded artifacts, output
  action_queue,   \* Projects.action_queue
  action_lock,    \* Projects.action_lock, the Event's flag
  loop_pc,        \* where the action_loop thread stands
  telemetry,      \* Projects.telemetry
  saved,          \* what save_projects wrote last
  concat_runs,    \* how often Project.concat ran, per project
  last,           \* the last registry call and what it returned
  Client,         \* the Client object of client.py with its Workers
  calls           \* the check_job calls in progress, one per request thread

vars == <<projects, project, fs, action_queue, action_lock, loop_pc,
          telemetry, saved, concat_runs, last, Client, calls>>

\* ---------------------------------------------------------------- helpers
\* list.remove(x): the first occurrence goes
RECURSIVE ListRemove(_, _)
ListRemove(seq, x) ==
  IF seq = <<>> THEN <<>>
  ELSE IF Head(seq) = x THEN Tail(seq)
  ELSE <<Head(seq)>> \o ListRemove(Tail(seq), x)

\* a dict restricted to its keys but one: del d[k]
DictDel(d, k) == [x \in (DOMAIN d) \ {k} |-> d[x]]

\* the keys of a scenes or jobs dict in iteration order
Keys(d) == SelectSeq(SceneOrder, LAMBDA s : s \in DOMAIN d)

\* a file on disk: <<>> when absent, <<size>> otherwise
NoFile == <<>>
IsFile(f) == Len(f) > 0
StSize(f) == f[1]

\* ------------------------------------------------------------------- Job
Job(projectid, scene, encoder, priority, encoder_params, ffmpeg_params, start, frames) ==
  [projectid |-> projectid, scene |-> scene, encoder |-> encoder,
   encoder_params |-> encoder_params, ffmpeg_params |-> ffmpeg_params,
   workers |-> <<>>, priority |-> priority, start |-> start, frames |-> frames]

\* --------------------------------------------------------------- Project
Project(id, encoder, encoder_params, ffmpeg_params, scenes, total_frames, priority) ==
  [projectid |-> id, status |-> "starting", jobs |-> <<>>,
   encoder |-> encoder, encoder_params |-> encoder_params,
   ffmpeg_params |-> ffmpeg_params, scenes |-> scenes, total_jobs |-> 0,
   priority |-> priority, stopped |-> FALSE,
   input_total_frames |-> total_frames, total_frames |-> 0,
   encoded_frames |-> 0, action |-> "", on_complete |-> FALSE]

RECURSIVE SumFrames(_, _, _)
SumFrames(scenes, keys, counted) ==
  IF keys = <<>> THEN 0
  ELSE (IF counted[Head(keys)] THEN scenes[Head(keys)].frames ELSE 0)
       + SumFrames(scenes, Tail(keys), counted)

\* Project.get_frames: the frames of the scenes with a nonzero filesize
get_frames(P) ==
  SumFrames(P.scenes, Keys(P.scenes),
            [s \in DOMAIN P.scenes |-> P.scenes[s].filesize # 0])

\* the sum of all scenes' frames, as Project.start accumulates it
AllFrames(scenes) ==
  SumFrames(scenes, Keys(scenes), [s \in DOMAIN scenes |-> TRUE])

\* -------------------------------------------------- the registry's state
\* The operations below are state transformers over this record.
St ==
  [projects |-> projects, project |-> project, fs |-> fs,
   action_queue |-> action_queue, action_lock |-> action_lock,
   telemetry |-> telemetry, saved |-> saved, concat_runs |-> concat_runs]

Install(st) ==
  /\ projects' = st.projects
  /\ project' = st.project
  /\ fs' = st.fs
  /\ action_queue' = st.action_queue
  /\ action_lock' = st.action_lock
  /\ telemetry' = st.telemetry
  /\ saved' = st.saved
  /\ concat_runs' = st.concat_runs
  /\ UNCHANGED <<Client, calls>>

set_status(st, p, msg) == [st EXCEPT !.project[p].status = msg]

\* Projects.add_action: append, then set the Event
add_action(st, action) ==
  LET q == Append(st.action_queue, action)
  IN [st EXCEPT !.action_queue = q,
                !.action_lock = IF Len(q) > 0 THEN TRUE ELSE @]

\* Projects.project_on_complete: the completion action goes to the queue
project_on_complete(st, p) ==
  add_action(st, [kind |-> "on_complete", projectid |-> p])

\* Projects.save_projects: every registered project's scenes are dumped
save_projects(st) ==
  [st EXCEPT !.saved = [p \in Range(st.projects) |-> st.project[p].scenes]]

\* Project.concat: the encoded segments are joined into path_out
concat(st, p) ==
  [st EXCEPT !.concat_runs[p] = @ + 1, !.fs.out[p] = TRUE]

\* Project.complete without the frame count in its condition
complete_JobsOnly(st, p) ==
  LET P == st.project[p]
  IN IF DOMAIN P.jobs = {}
     THEN LET s1 == set_status(st, p, "done! joining files")
              s2 == concat(s1, p)
              s3 == set_status(s2, p, "complete")
          IN IF P.on_complete THEN project_on_complete(s3, p) ELSE s3
     ELSE st

\* Project.complete with lines 308-309 outside the test of line 303
complete_AlwaysCallback(st, p) ==
  LET P == st.project[p]
      s4 == IF DOMAIN P.jobs = {} /\ get_frames(P) = P.total_frames
            THEN set_status(concat(set_status(st, p, "done! joining files"), p),
                            p, "complete")
            ELSE st
  IN IF P.on_complete THEN project_on_complete(s4, p) ELSE s4

\* Project.complete
complete(st, p) ==
  LET P == st.project[p]
  IN IF DOMAIN P.jobs = {} /\ get_frames(P) = P.total_frames
     THEN LET s1 == set_status(st, p, "done! joining files")
              s2 == concat(s1, p)
              s3 == set_status(s2, p, "complete")
          IN IF P.on_complete THEN project_on_complete(s3, p) ELSE s3
     ELSE st

\* Project.start, lines 240-243: the resume data
ResumeScenes(st, p) ==
  LET P == st.project[p]
  IN [s \in DOMAIN P.scenes |->
        [P.scenes[s] EXCEPT
           !.filesize = IF IsFile(st.fs.encode[p][s])
                        THEN StSize(st.fs.encode[p][s]) ELSE 0]]

\* lines 250-270 without the "bad" test of line 251
StartJobs_IgnoresBad(P) ==
  [s \in {x \in DOMAIN P.scenes : ~(P.scenes[x].filesize > 0)} |->
     Job(P.projectid, s, P.encoder, P.priority, P.encoder_params,
         P.ffmpeg_params, P.scenes[s].start, P.scenes[s].frames)]

\* Project.start, lines 250-270: a Job for every scene not encoded and not bad
StartJobs(P) ==
  [s \in {x \in DOMAIN P.scenes :
            ~(P.scenes[x].filesize > 0 \/ P.scenes[x].bad)} |->
     Job(P.projectid, s, P.encoder, P.priority, P.encoder_params,
         P.ffmpeg_params, P.scenes[s].start, P.scenes[s].frames)]

\* Project.start: [ret |-> what start returns, st |-> the state it leaves]
start(st, p) ==
  IF ~st.fs.split[p]
  THEN [ret |-> TRUE, st |-> st]
  ELSE
    LET P0 == st.project[p]
        sc == ResumeScenes(st, p)
        P1 == [P0 EXCEPT !.total_jobs = Cardinality(DOMAIN P0.scenes),
                         !.status = IF st.fs.encdir[p]
                                    THEN "getting resume data" ELSE @,
                         !.scenes = sc,
                         !.total_frames = @ + AllFrames(sc)]
        s1 == [st EXCEPT !.project[p] = P1]
    IN IF P1.stopped THEN [ret |-> FALSE, st |-> s1]
       ELSE
         LET P2 == IF P1.input_total_frames = P1.total_frames
                   THEN [P1 EXCEPT !.jobs = StartJobs(P1), !.status = "ready"]
                   ELSE [P1 EXCEPT !.status = "total frame mismatch"]
             s2 == [s1 EXCEPT !.project[p] = P2]
         IN [ret |-> FALSE,
             st |-> IF s2.fs.out[p] THEN set_status(s2, p, "complete")
                    ELSE complete(s2, p)]

\* ----------------------------------------------------------------- split
\* the offset of scene s: the frames of the scenes before it
RECURSIVE StartOf(_, _, _)
StartOf(frames, keys, s) ==
  IF keys = <<>> \/ Head(keys) = s THEN 0
  ELSE frames[Head(keys)] + StartOf(frames, Tail(keys), s)

MkScenes(frames, bad) ==
  [s \in Scenes |-> [start |-> StartOf(frames, SceneOrder, s),
                     frames |-> frames[s], filesize |-> 0,
                     bad |-> s \in bad]]

\* the scenes the verifier may mark bad: none, or one
BadChoices == {{}} \cup {{s} : s \in Scenes}

\* what split() and verify_split() may hand back: the scenes and the
\* frame count of the input, which may disagree with the scenes' sum
SplitResults ==
  {[scenes |-> MkScenes(f, b), input_total_frames |-> AllFrames(MkScenes(f, b)) + d] :
     f \in [Scenes -> 1..MaxFrames], b \in BadChoices, d \in {0, 1}}

\* Project.split: the splitter writes the segments, then start() runs
split(st, p, res) ==
  LET s1 == set_status(st, p, "splitting")
      s2 == [s1 EXCEPT !.project[p].scenes = res.scenes,
                       !.project[p].input_total_frames = res.input_total_frames,
                       !.fs.split[p] = TRUE]
      s3 == set_status(s2, p, "verifying split")
  IN start(s3, p).st

\* ------------------------------------------------------------------- add
Encoders == {"aom", "vpx"}

\* Projects.add with line 48 run whatever start() returns
add_AlwaysSplits(st, p, proj, action) ==
  LET P == IF action # ""
           THEN [proj EXCEPT !.action = action, !.on_complete = TRUE]
           ELSE proj
      s1 == [st EXCEPT !.project[p] = P,
                       !.projects = IF p \in Range(@) THEN @ ELSE Append(@, p)]
      s2 == save_projects(s1)
  IN add_action(start(s2, p).st, [kind |-> "split", projectid |-> p])

\* Projects.add, with the Project its caller constructs
add(st, p, proj, action) ==
  LET P == IF action # ""
           THEN [proj EXCEPT !.action = action, !.on_complete = TRUE]
           ELSE proj
      s1 == [st EXCEPT !.project[p] = P,
                       !.projects = IF p \in Range(@) THEN @ ELSE Append(@, p)]
      s2 == save_projects(s1)
      r == start(s2, p)
  IN IF r.ret THEN add_action(r.st, [kind |-> "split", projectid |-> p])
     ELSE r.st

\* ------------------------------------------------------------- check_job
\* an uploaded file: its size, the decoder's exit code on it and the frames
\* the decoder counts (rc 0 only)
Artifacts ==
  {[size |-> 0, rc |-> 0, frames |-> 0]}
    \cup {[size |-> 1, rc |-> r, frames |-> 0] : r \in {1, 2}}
    \cup {[size |-> 1, rc |-> 0, frames |-> n] : n \in 1..MaxFrames}

\* Projects.hit: samples older than an hour go (the `expired` oldest ones),
\* the new sample is appended, fph is the sum
RECURSIVE SumSeq(_)
SumSeq(seq) == IF seq = <<>> THEN 0 ELSE Head(seq) + SumSeq(Tail(seq))

hit(st, frames, expired) ==
  LET kept == SubSeq(st.telemetry.encodes, expired + 1, Len(st.telemetry.encodes))
      enc == Append(kept, frames)
  IN [st EXCEPT !.telemetry = [encodes |-> enc, fph |-> SumSeq(enc)]]

\* lines 103-118: how the decode ends ("ok", "bad encode", or "raised" when
\* the regex finds no frame count and .group fails) and the frames it
\* counted: <<n>>, or <<>> for get_frames' None
Decode(job, file) ==
  IF job.encoder = "aom"
  THEN IF file.rc = 1 THEN [how |-> "bad encode", frames |-> <<>>]
       ELSE IF file.rc # 0 THEN [how |-> "raised", frames |-> <<>>]
       ELSE [how |-> "ok", frames |-> <<file.frames>>]
  ELSE [how |-> "ok", frames |-> IF file.rc = 0 THEN <<file.frames>> ELSE <<>>]

\* lines 84-88 without lines 85-86: the client stays in job.workers
BadParams_KeepsWorker(st, p, client, scene_number) ==
  [ret |-> "bad params", st |-> st]

\* lines 84-88
BadParams(st, p, client, scene_number) ==
  LET job == st.project[p].jobs[scene_number]
  IN [ret |-> "bad params",
      st |-> IF client \in Range(job.workers)
             THEN [st EXCEPT !.project[p].jobs[scene_number].workers =
                               ListRemove(@, client)]
             ELSE st]

\* lines 120-125 after line 127: the size of the rejected file is recorded
FrameMismatch_SetsFilesize(st, p, client, scene_number) ==
  LET job == st.project[p].jobs[scene_number]
      s1 == [st EXCEPT !.project[p].scenes[scene_number].filesize =
                         StSize(st.fs.encode[p][scene_number]),
                       !.fs.encode[p][scene_number] = NoFile]
  IN [ret |-> "frame mismatch",
      st |-> IF client \in Range(job.workers)
             THEN [s1 EXCEPT !.project[p].jobs[scene_number].workers =
                               ListRemove(@, client)]
             ELSE s1]

\* lines 120-125 without lines 122-123: the client stays in job.workers
FrameMismatch_KeepsWorker(st, p, client, scene_number) ==
  [ret |-> "frame mismatch",
   st |-> [st EXCEPT !.fs.encode[p][scene_number] = NoFile]]

\* lines 120-125
FrameMismatch(st, p, client, scene_number) ==
  LET job == st.project[p].jobs[scene_number]
      s1 == [st EXCEPT !.fs.encode[p][scene_number] = NoFile]
  IN [ret |-> "frame mismatch",
      st |-> IF client \in Range(job.workers)
             THEN [s1 EXCEPT !.project[p].jobs[scene_number].workers =
                               ListRemove(@, client)]
             ELSE s1]

\* lines 127-143 without line 132: the Job stays in the job map
Integrate_KeepsJob(st, p, client, scene_number, expired) ==
  LET P == st.project[p]
      job == P.jobs[scene_number]
      scene == P.scenes[scene_number]
      s1 == [st EXCEPT !.project[p].scenes[scene_number].filesize =
                         StSize(st.fs.encode[p][scene_number])]
      s2 == IF client \in Range(job.workers)
            THEN [s1 EXCEPT !.project[p].encoded_frames = @ + scene.frames]
            ELSE s1
      s4 == save_projects(hit(s2, scene.frames, expired))
      P4 == s4.project[p]
  IN [ret |-> "saved",
      st |-> IF DOMAIN P4.jobs = {} /\ get_frames(P4) = P4.total_frames
             THEN add_action(s4, [kind |-> "complete", projectid |-> p])
             ELSE s4]

\* lines 127-143
Integrate(st, p, client, scene_number, expired) ==
  LET P == st.project[p]
      job == P.jobs[scene_number]
      scene == P.scenes[scene_number]
      s1 == [st EXCEPT !.project[p].scenes[scene_number].filesize =
                         StSize(st.fs.encode[p][scene_number])]
      s2 == IF client \in Range(job.workers)
            THEN [s1 EXCEPT !.project[p].encoded_frames = @ + scene.frames]
            ELSE s1
      s3 == [s2 EXCEPT !.project[p].jobs = DictDel(@, scene_number)]
      s4 == save_projects(hit(s3, scene.frames, expired))
      P4 == s4.project[p]
  IN [ret |-> "saved",
      st |-> IF DOMAIN P4.jobs = {} /\ get_frames(P4) = P4.total_frames
             THEN add_action(s4, [kind |-> "complete", projectid |-> p])
             ELSE s4]

\* check_job with the test of lines 92-94 made before the test of lines
\* 84-88
check_job_DoneFirst(st, projectid, client, encoder, encoder_params, ffmpeg_params, scene_number, file, expired) ==
  IF projectid \notin Range(st.projects)
  THEN [ret |-> "project not found", st |-> st]
  ELSE
    LET P == st.project[projectid]
    IN IF scene_number \notin DOMAIN P.jobs
       THEN [ret |-> "job not found", st |-> st]
       ELSE
         LET job == P.jobs[scene_number]
             scene == P.scenes[scene_number]
         IN IF scene.filesize > 0
            THEN [ret |-> "already done", st |-> st]
            ELSE IF \/ job.encoder_params # encoder_params
                    \/ job.ffmpeg_params # ffmpeg_params
                    \/ job.encoder # encoder
            THEN BadParams(st, projectid, client, scene_number)
            ELSE
              LET s1 == [st EXCEPT !.fs.encdir[projectid] = TRUE,
                                   !.fs.encode[projectid][scene_number] = <<file.size>>]
                  encoded_frames == Decode(job, file)
              IN IF file.size = 0
                 THEN [ret |-> "bad upload", st |-> s1]
                 ELSE IF encoded_frames.how # "ok"
                 THEN [ret |-> encoded_frames.how, st |-> s1]
                 ELSE IF <<scene.frames>> # encoded_frames.frames
                 THEN FrameMismatch(s1, projectid, client, scene_number)
                 ELSE Integrate(s1, projectid, client, scene_number, expired)

\* Projects.check_job: [ret |-> the status returned ("raised" when an
\* exception leaves the call), st |-> the state the call leaves]
check_job(st, projectid, client, encoder, encoder_params, ffmpeg_params, scene_number, file, expired) ==
  IF projectid \notin Range(st.projects)
  THEN [ret |-> "project not found", st |-> st]
  ELSE
    LET P == st.project[projectid]
    IN IF scene_number \notin DOMAIN P.jobs
       THEN [ret |-> "job not found", st |-> st]
       ELSE
         LET job == P.jobs[scene_number]
             scene == P.scenes[scene_number]
         IN IF \/ job.encoder_params # encoder_params
               \/ job.ffmpeg_params # ffmpeg_params
               \/ job.encoder # encoder
            THEN BadParams(st, projectid, client, scene_number)
            ELSE IF scene.filesize > 0
            THEN [ret |-> "already done", st |-> st]
            ELSE
              LET s1 == [st EXCEPT !.fs.encdir[projectid] = TRUE,
                                   !.fs.encode[projectid][scene_number] = <<file.size>>]
                  encoded_frames == Decode(job, file)
              IN IF file.size = 0
                 THEN [ret |-> "bad upload", st |-> s1]
                 ELSE IF encoded_frames.how # "ok"
                 THEN [ret |-> encoded_frames.how, st |-> s1]
                 ELSE IF <<scene.frames>> # encoded_frames.frames
                 THEN FrameMismatch(s1, projectid, client, scene_number)
                 ELSE Integrate(s1, projectid, client, scene_number, expired)

\* --------------------------------------------------------------- get_job
\* a value decoded from the JSON exclusion list: a string, or a number
\* that str() renders as v; the registry's own ids and scene keys are strs
JStr(x) == [t |-> "str", v |-> x]
JNum(x) == [t |-> "num", v |-> x]

\* Python's str(): a str is returned as it is, a number as its rendering
str(x) == [t |-> "str", v |-> x.v]

\* line 57 with all() for any(): skipped only when every entry names the job
Skipped_All(job, skip_jobs) ==
  \A job2 \in skip_jobs :
    /\ JStr(job.scene) = job2.scene
    /\ str(JStr(job.projectid)) = str(job2.projectid)

\* line 57: whether some entry of skip_jobs names the job
Skipped(job, skip_jobs) ==
  \E job2 \in skip_jobs :
    /\ JStr(job.scene) = job2.scene
    /\ str(JStr(job.projectid)) = str(job2.projectid)

\* lines 53-55: every project's jobs, in dict order
RECURSIVE JobsOf(_, _)
JobsOf(jobs, keys) ==
  IF keys = <<>> THEN <<>>
  ELSE <<jobs[Head(keys)]>> \o JobsOf(jobs, Tail(keys))

RECURSIVE AllJobs(_, _)
AllJobs(st, pids) ==
  IF pids = <<>> THEN <<>>
  ELSE JobsOf(st.project[Head(pids)].jobs, Keys(st.project[Head(pids)].jobs))
         \o AllJobs(st, Tail(pids))

\* line 58 without the number of workers
SortKey_NoWorkers(x) == <<x.priority, x.frames>>

\* line 58: the sort key, and the order of Python tuples
SortKey(x) == <<x.priority, Len(x.workers), x.frames>>

RECURSIVE TupleLess(_, _)
TupleLess(a, b) ==
  IF a = <<>> \/ b = <<>> THEN a = <<>> /\ b # <<>>
  ELSE IF Head(a) # Head(b) THEN Head(a) < Head(b)
  ELSE TupleLess(Tail(a), Tail(b))

\* sorted(): stable, so an element goes behind the ones not greater than it
RECURSIVE InsertSorted(_, _)
InsertSorted(sorted, x) ==
  IF sorted = <<>> THEN <<x>>
  ELSE IF TupleLess(SortKey(x), SortKey(Head(sorted))) THEN <<x>> \o sorted
  ELSE <<Head(sorted)>> \o InsertSorted(Tail(sorted), x)

RECURSIVE Sorted(_)
Sorted(seq) ==
  IF seq = <<>> THEN <<>>
  ELSE InsertSorted(Sorted(SubSeq(seq, 1, Len(seq) - 1)), seq[Len(seq)])

\* Projects.get_job: <<>> for None, else <<the job>>
get_job(st, skip_jobs) ==
  LET all_jobs == SelectSeq(AllJobs(st, st.projects),
                            LAMBDA job : ~Skipped(job, skip_jobs))
      ordered == Sorted(all_jobs)
  IN IF Len(ordered) > 0 THEN <<ordered[1]>> ELSE <<>>

\* ------------------------------------ the client's objects (client.py)
\* the Worker objects a run can create, in the order main creates them
WorkerOrder == <<"w1", "w2">>
WorkerIds == Range(WorkerOrder)
\* the jobs the coordinator has for the client, each handed out once: one
\* for the runs of the pool under the menu, two for the runs of the uploader
PoolJobs == {"j1"}
UploadJobs == {"j1", "j2"}
RefetchJobs == {"j1", "j1again"}
\* rounds of the 15-round wait of lines 527-536 that are followed
MaxWaits == 2
\* values Worker.progress takes, 0 for (0, 0)
MaxProgress == 1
\* line 245
UploadRetries == 3

\* Worker.__init__; holds_download records that the thread acquired
\* download_lock and has not released it
NewWorker ==
  [pc |-> "top", job |-> <<>>, lock_acquired |-> FALSE, stopped |-> FALSE,
   progress |-> 0, i |-> 0, holds_download |-> FALSE]

\* no "remove" is being followed
NoShrink == [on |-> FALSE, mid |-> {}, gone |-> {}]

\* Client.__init__ and the n calls of add_worker in main; pc "none" marks a
\* Worker that was not created
NewClient(n, jobs) ==
  [workers |-> SubSeq(WorkerOrder, 1, n),
   numworkers |-> n,
   lock |-> FALSE,
   download_lock |-> FALSE,
   worker_timer |-> FALSE,
   stopping |-> FALSE,
   key_loop |-> "run",
   worker |-> [w \in WorkerIds |->
                 IF \E k \in 1..n : WorkerOrder[k] = w THEN NewWorker
                 ELSE [NewWorker EXCEPT !.pc = "none"]],
   upload_queue |-> <<>>,
   upload_queue_event |-> FALSE,
   uploading |-> <<>>,
   completed |-> 0,
   failed |-> 0,
   uploader |-> [pc |-> "idle", job |-> <<>>, uploads |-> 0],
   outputs |-> {},
   coordinator |-> jobs,
   shrink |-> NoShrink,
   enqueued |-> <<>>,
   taken |-> <<>>]

\* ------------------------------------------------- the registry's actions
NoCall == [op |-> "none", ret |-> ""]

\* the request threads that may be inside check_job, and a thread outside it
Callers == {"t1", "t2"}
NoCalls ==
  [t \in Callers |-> [pc |-> "idle", scene |-> "", client |-> "", job |-> <<>>,
                      stat |-> FALSE, ret |-> ""]]

\* the Project a caller of add constructs: a new one when the split
\* directory is empty, else one loaded from the saved scenes
NewProjects(p) ==
  IF ~fs.split[p]
  THEN {Project(p, e, "ep1", "", <<>>, 0, 0) : e \in Encoders}
  ELSE {Project(p, e, "ep1", "", sc, AllFrames(sc) + d, 0) :
          e \in Encoders, sc \in {r.scenes : r \in SplitResults}, d \in {0, 1}}

Add(p) ==
  /\ p \in Submitted
  /\ p \notin Range(projects)
  /\ \E proj \in NewProjects(p), action \in {"", "act"} :
       Install(add(St, p, proj, action))
  /\ last' = NoCall
  /\ UNCHANGED loop_pc

\* the caller of get_job records the client in the job it was handed
\* (assignedWorkers, a set of client ids)
AssignWorker(p, s, c) ==
  /\ p \in Range(projects)
  /\ s \in DOMAIN project[p].jobs
  /\ c \notin Range(project[p].jobs[s].workers)
  /\ Len(project[p].jobs[s].workers) < MaxJobWorkers
  /\ project' = [project EXCEPT ![p].jobs[s].workers = Append(@, c)]
  /\ last' = NoCall
  /\ UNCHANGED <<projects, fs, action_queue, action_lock, loop_pc,
                 telemetry, saved, concat_runs>>
  /\ UNCHANGED <<Client, calls>>

\* the (encoder, encoder_params, ffmpeg_params) a client may submit: the
\* project's defaults with either encoder, or with one field changed
SubmittedParams ==
  {<<e, "ep1", "">> : e \in Encoders} \cup {<<"aom", "ep2", "">>, <<"aom", "ep1", "fp1">>}

\* One call of check_job per input the call reads: the scene once the
\* project is found, the client and the params once the job is found, the
\* file once the params are accepted for a pending scene, the clock once
\* the file is integrated.  An input the call never reads takes one value.
JobFound(p, scene_number) ==
  p \in Range(projects) /\ scene_number \in DOMAIN project[p].jobs

ReadsFile(p, scene_number, params) ==
  /\ JobFound(p, scene_number)
  /\ <<project[p].jobs[scene_number].encoder,
       project[p].jobs[scene_number].encoder_params,
       project[p].jobs[scene_number].ffmpeg_params>> = params
  /\ project[p].scenes[scene_number].filesize = 0

ScenesOf(p) ==
  IF p \in Range(projects) THEN Scenes \cup {"s0"} ELSE {"s0"}

ClientsOf(p, scene_number) ==
  IF JobFound(p, scene_number) THEN Clients ELSE {"c1"}

ParamsOf(p, scene_number) ==
  IF JobFound(p, scene_number) THEN SubmittedParams ELSE {<<"aom", "ep1", "">>}

FilesOf(p, scene_number, params) ==
  IF ReadsFile(p, scene_number, params) THEN Artifacts
  ELSE {[size |-> 0, rc |-> 0, frames |-> 0]}

ClockOf(p, scene_number, params, file) ==
  IF /\ ReadsFile(p, scene_number, params)
     /\ file.size > 0
     /\ Decode(project[p].jobs[scene_number], file).how = "ok"
     /\ Decode(project[p].jobs[scene_number], file).frames
          = <<project[p].scenes[scene_number].frames>>
  THEN 0..Len(telemetry.encodes) ELSE {0}

\* one call of check_job with the given inputs
CheckJobCall(p, scene_number, client, params, file, expired) ==
  LET r == check_job(St, p, client, params[1], params[2], params[3],
                     scene_number, file, expired)
  IN /\ Install(r.st)
     /\ last' = [op |-> "check_job", ret |-> r.ret]
     /\ UNCHANGED loop_pc

CheckJob(p) ==
  \E scene_number \in ScenesOf(p) :
    \E client \in ClientsOf(p, scene_number), params \in ParamsOf(p, scene_number) :
      \E file \in FilesOf(p, scene_number, params) :
        \E expired \in ClockOf(p, scene_number, params, file) :
          CheckJobCall(p, scene_number, client, params, file, expired)

\* action_loop, line 17: wait() returns once the Event is set
LoopWait ==
  /\ loop_pc = "wait"
  /\ action_lock
  /\ loop_pc' = "loop"
  /\ last' = NoCall
  /\ UNCHANGED <<projects, project, fs, action_queue, action_lock,
                 telemetry, saved, concat_runs>>
  /\ UNCHANGED <<Client, calls>>

\* what the popped action does
RunAction(st, a, res) ==
  IF a.kind = "split" THEN split(st, a.projectid, res)
  ELSE IF a.kind = "complete" THEN complete(st, a.projectid)
  ELSE st

\* action_loop, lines 18-20: pop the first action, run it, save
LoopRun ==
  /\ loop_pc = "loop"
  /\ Len(action_queue) > 0
  /\ LET a == Head(action_queue)
         s0 == [St EXCEPT !.action_queue = Tail(@)]
     IN \E res \in (IF a.kind = "split" THEN SplitResults
                    ELSE {CHOOSE r \in SplitResults : TRUE}) :
          Install(save_projects(RunAction(s0, a, res)))
  /\ last' = NoCall
  /\ UNCHANGED loop_pc

\* action_loop, line 18: the queue is found empty
LoopExit ==
  /\ loop_pc = "loop"
  /\ Len(action_queue) = 0
  /\ loop_pc' = "clear"
  /\ last' = NoCall
  /\ UNCHANGED <<projects, project, fs, action_queue, action_lock,
                 telemetry, saved, concat_runs>>
  /\ UNCHANGED <<Client, calls>>

\* action_loop, line 22
LoopClear ==
  /\ loop_pc = "clear"
  /\ action_lock' = FALSE
  /\ loop_pc' = "wait"
  /\ last' = NoCall
  /\ UNCHANGED <<projects, project, fs, action_queue, telemetry, saved,
                 concat_runs>>
  /\ UNCHANGED <<Client, calls>>

\* the files a run of the program can leave behind for the next one: an
\* output only beside a full set of encoded scenes
InitialFS ==
  {f \in [split : [ProjectIds -> BOOLEAN],
          encdir : [ProjectIds -> BOOLEAN],
          encode : [ProjectIds -> [Scenes -> {NoFile, <<0>>, <<1>>}]],
          out : [ProjectIds -> BOOLEAN]] :
     \A p \in ProjectIds :
       /\ p \notin Submitted => ~f.split[p]
       /\ ~f.split[p] => \A s \in Scenes : f.encode[p][s] = NoFile
       /\ f.encdir[p] = (\E s \in Scenes : IsFile(f.encode[p][s]))
       /\ f.out[p] => /\ f.split[p]
                      /\ \A s \in Scenes : f.encode[p][s] = <<1>>}

Init ==
  /\ projects = <<>>
  /\ project = [p \in ProjectIds |-> Project(p, "aom", "ep1", "", <<>>, 0, 0)]
  /\ fs \in InitialFS
  /\ action_queue = <<>>
  /\ action_lock = FALSE
  /\ loop_pc = "wait"
  /\ telemetry = [encodes |-> <<>>, fph |-> 0]
  /\ saved = <<>>
  /\ concat_runs = [p \in ProjectIds |-> 0]
  /\ last = NoCall
  /\ Client = NewClient(0, {})
  /\ calls = NoCalls

Next ==
  \/ \E p \in ProjectIds : Add(p)
  \/ \E p \in ProjectIds, s \in Scenes, c \in Clients : AssignWorker(p, s, c)
  \/ \E p \in ProjectIds : CheckJob(p)
  \/ LoopWait
  \/ LoopRun
  \/ LoopExit
  \/ LoopClear

Spec == Init /\ [][Next]_vars

\* the action_loop thread is scheduled again and again
LoopStep == LoopWait \/ LoopRun \/ LoopExit \/ LoopClear

FairSpec == Spec /\ WF_vars(LoopStep)

\* ----------------------------------------- get_job on drawn registries
\* the entries an exclusion list may hold: the (projectid, scene) of a job
\* as the client sends them, or with a number where a str is expected
SkipEntries ==
  {[projectid |-> JStr(p), scene |-> JStr(s)] : p \in ProjectIds, s \in Scenes}
    \cup {[projectid |-> JNum("p1"), scene |-> JStr("s1")],
          [projectid |-> JStr("p1"), scene |-> JNum("s1")]}

SkipLists == {sk \in SUBSET SkipEntries : Cardinality(sk) <= MaxSkip}

\* the files of a registry whose projects are all split; the first scene
\* may be encoded already
GetJobFS ==
  {f \in [split : [ProjectIds -> {TRUE}],
          encdir : [ProjectIds -> BOOLEAN],
          encode : [ProjectIds -> [Scenes -> {NoFile, <<1>>}]],
          out : [ProjectIds -> {FALSE}]] :
     \A p \in ProjectIds :
       /\ f.encode[p][SceneOrder[Len(SceneOrder)]] = NoFile
       /\ f.encdir[p] = (\E s \in Scenes : IsFile(f.encode[p][s]))}

\* a resumed project of priority prio with the scenes sc
Resumed(p, sc, prio) == Project(p, "aom", "ep1", "", sc, AllFrames(sc), prio)

InitGetJob ==
  /\ loop_pc = "wait"
  /\ last = NoCall
  /\ \E f \in GetJobFS, sc \in [ProjectIds -> {MkScenes(fr, {}) : fr \in [Scenes -> 1..MaxFrames]}],
        prio \in [ProjectIds -> 0..MaxPriority] :
       LET s0 == [projects |-> <<>>,
                  project |-> [p \in ProjectIds |-> Resumed(p, sc[p], prio[p])],
                  fs |-> f, action_queue |-> <<>>, action_lock |-> FALSE,
                  telemetry |-> [encodes |-> <<>>, fph |-> 0],
                  saved |-> <<>>, concat_runs |-> [p \in ProjectIds |-> 0]]
           s1 == add(s0, "p1", s0.project["p1"], "")
           s2 == add(s1, "p2", s1.project["p2"], "")
       IN /\ projects = s2.projects
          /\ project = s2.project
          /\ fs = s2.fs
          /\ action_queue = s2.action_queue
          /\ action_lock = s2.action_lock
          /\ telemetry = s2.telemetry
          /\ saved = s2.saved
          /\ concat_runs = s2.concat_runs
  /\ Client = NewClient(0, {})
  /\ calls = NoCalls

\* a get_job that marks the job it returns as claimed by client "c1"
GetJob_Claims(skip_jobs) ==
  LET job == get_job(St, skip_jobs)
  IN /\ last' = [op |-> "get_job", ret |-> job]
     /\ project' = IF job = <<>> THEN project
                   ELSE [project EXCEPT
                           ![job[1].projectid].jobs[job[1].scene].workers = <<"c1">>]
     /\ UNCHANGED <<projects, fs, action_queue, action_lock, loop_pc,
                    telemetry, saved, concat_runs>>
     /\ UNCHANGED <<Client, calls>>

GetJob(skip_jobs) ==
  /\ last' = [op |-> "get_job", ret |-> get_job(St, skip_jobs)]
  /\ UNCHANGED <<projects, project, fs, action_queue, action_lock, loop_pc,
                 telemetry, saved, concat_runs>>
  /\ UNCHANGED <<Client, calls>>

\* the caller of get_job records its client in the job it was handed
AssignReturned(c) ==
  /\ last.op = "get_job"
  /\ last.ret # <<>>
  /\ AssignWorker(last.ret[1].projectid, last.ret[1].scene, c)

NextGetJob ==
  \/ \E skip_jobs \in SkipLists : GetJob(skip_jobs)
  \/ \E c \in Clients : AssignReturned(c)

SpecGetJob == InitGetJob /\ [][NextGetJob]_vars

\* ------------------------------- check_job calls that overlap in time
\* Two request threads run check_job on project "p1" with the job's own
\* params and an artifact that decodes to the scene's frames. A thread can
\* be suspended wherever the call waits for the file system or the decoder.

\* one step of thread t: the registry becomes st, the thread's record c
CallInstall(st, t, c) ==
  /\ projects' = st.projects
  /\ project' = st.project
  /\ fs' = st.fs
  /\ action_queue' = st.action_queue
  /\ action_lock' = st.action_lock
  /\ telemetry' = st.telemetry
  /\ saved' = st.saved
  /\ concat_runs' = st.concat_runs
  /\ calls' = [calls EXCEPT ![t] = c]
  /\ UNCHANGED <<loop_pc, last, Client>>

\* lines 71-94: the lookups and the tests made in memory; job is the Job
\* object the thread keeps a reference to
CallEnter(t) ==
  /\ calls[t].pc = "idle"
  /\ \E scene_number \in Scenes, client \in Clients :
       LET c == [calls[t] EXCEPT !.scene = scene_number, !.client = client]
           P == project["p1"]
       IN IF "p1" \notin Range(projects)
          THEN CallInstall(St, t, [c EXCEPT !.pc = "ret", !.ret = "project not found"])
          ELSE IF scene_number \notin DOMAIN P.jobs
          THEN CallInstall(St, t, [c EXCEPT !.pc = "ret", !.ret = "job not found"])
          ELSE IF P.scenes[scene_number].filesize > 0
          THEN CallInstall(St, t, [c EXCEPT !.pc = "ret", !.ret = "already done"])
          ELSE CallInstall(St, t, [c EXCEPT !.pc = "save",
                                            !.job = <<P.jobs[scene_number]>>])

\* lines 96-125 for a non-empty file that decodes to the scene's frames
CallSave(t) ==
  /\ calls[t].pc = "save"
  /\ CallInstall([St EXCEPT !.fs.encdir["p1"] = TRUE,
                            !.fs.encode["p1"][calls[t].scene] = <<1>>],
                 t, [calls[t] EXCEPT !.pc = "stat"])

\* line 127
CallStat(t) ==
  /\ calls[t].pc = "stat"
  /\ CallInstall([St EXCEPT !.project["p1"].scenes[calls[t].scene].filesize =
                              StSize(fs.encode["p1"][calls[t].scene])],
                 t, [calls[t] EXCEPT !.pc = "integrate", !.stat = TRUE])

\* lines 129-137: del of a key that is gone raises KeyError
CallIntegrate(t) ==
  /\ calls[t].pc = "integrate"
  /\ LET s == calls[t].scene
         frames == project["p1"].scenes[s].frames
         s2 == IF calls[t].client \in Range(calls[t].job[1].workers)
               THEN [St EXCEPT !.project["p1"].encoded_frames = @ + frames]
               ELSE St
     IN IF s \notin DOMAIN s2.project["p1"].jobs
        THEN CallInstall(s2, t, [calls[t] EXCEPT !.pc = "ret", !.ret = "raised"])
        ELSE CallInstall(
               save_projects(hit([s2 EXCEPT !.project["p1"].jobs = DictDel(@, s)],
                                 frames, 0)),
               t, [calls[t] EXCEPT !.pc = "finish"])

\* lines 139-143
CallFinish(t) ==
  /\ calls[t].pc = "finish"
  /\ LET P == project["p1"]
     IN CallInstall(IF DOMAIN P.jobs = {} /\ get_frames(P) = P.total_frames
                    THEN add_action(St, [kind |-> "complete", projectid |-> "p1"])
                    ELSE St,
                    t, [calls[t] EXCEPT !.pc = "ret", !.ret = "saved"])

\* "p1" resumed from a split with no scene encoded yet: add runs start,
\* which makes a Job for each scene; the Job of the first scene may have
\* been handed to client "c1"
InitOverlap ==
  /\ loop_pc = "wait"
  /\ last = NoCall
  /\ Client = NewClient(0, {})
  /\ calls = NoCalls
  /\ \E sc \in {MkScenes(fr, {}) : fr \in [Scenes -> 1..MaxFrames]},
        workers \in {<<>>, <<"c1">>} :
       LET s0 == [projects |-> <<>>,
                  project |-> [p \in ProjectIds |-> Resumed(p, sc, 0)],
                  fs |-> [split |-> [p \in ProjectIds |-> p = "p1"],
                          encdir |-> [p \in ProjectIds |-> FALSE],
                          encode |-> [p \in ProjectIds |-> [s \in Scenes |-> NoFile]],
                          out |-> [p \in ProjectIds |-> FALSE]],
                  action_queue |-> <<>>, action_lock |-> FALSE,
                  telemetry |-> [encodes |-> <<>>, fph |-> 0],
                  saved |-> <<>>, concat_runs |-> [p \in ProjectIds |-> 0]]
           s1 == add(s0, "p1", s0.project["p1"], "")
       IN /\ projects = s1.projects
          /\ project = [s1.project EXCEPT
                          !["p1"].jobs[SceneOrder[1]].workers = workers]
          /\ fs = s1.fs
          /\ action_queue = s1.action_queue
          /\ action_lock = s1.action_lock
          /\ telemetry = s1.telemetry
          /\ saved = s1.saved
          /\ concat_runs = s1.concat_runs

NextOverlap ==
  \E t \in Callers :
    \/ CallEnter(t)
    \/ CallSave(t)
    \/ CallStat(t)
    \/ CallIntegrate(t)
    \/ CallFinish(t)

SpecOverlap == InitOverlap /\ [][NextOverlap]_vars

\* a registry nothing was added to
IdleRegistry ==
  /\ projects = <<>>
  /\ project = [p \in ProjectIds |-> Project(p, "aom", "ep1", "", <<>>, 0, 0)]
  /\ fs = [split |-> [p \in ProjectIds |-> FALSE],
           encdir |-> [p \in ProjectIds |-> FALSE],
           encode |-> [p \in ProjectIds |-> [s \in Scenes |-> NoFile]],
           out |-> [p \in ProjectIds |-> FALSE]]
  /\ action_queue = <<>>
  /\ action_lock = FALSE
  /\ loop_pc = "wait"
  /\ telemetry = [encodes |-> <<>>, fph |-> 0]
  /\ saved = <<>>
  /\ concat_runs = [p \in ProjectIds |-> 0]
  /\ last = NoCall
  /\ calls = NoCalls

\* --------------------- the threads that change projects and save them
\* The action_loop thread runs the queued actions and saves after each;
\* request threads run Projects.add, which saves and runs start() in the
\* caller's thread. A call is in progress from the step that enters it to
\* the step in which it returns, where its effect is applied.

\* add, lines 37-45: the project is registered and save_projects is entered
AddBegin(t, p) ==
  /\ calls[t].pc = "idle"
  /\ p \notin Range(projects)
  /\ \E proj \in NewProjects(p), action \in {"", "act"} :
       LET P == IF action # ""
                THEN [proj EXCEPT !.action = action, !.on_complete = TRUE]
                ELSE proj
       IN CallInstall([St EXCEPT !.project[p] = P, !.projects = Append(@, p)],
                      t, [calls[t] EXCEPT !.pc = "save_projects", !.scene = p])

\* add, lines 45-47: save_projects returns and start() is entered
AddSaved(t) ==
  /\ calls[t].pc = "save_projects"
  /\ CallInstall(save_projects(St), t, [calls[t] EXCEPT !.pc = "start"])

\* add, lines 47-48: start() returns
AddStarted(t) ==
  /\ calls[t].pc = "start"
  /\ LET r == start(St, calls[t].scene)
     IN CallInstall(IF r.ret
                    THEN add_action(r.st, [kind |-> "split",
                                           projectid |-> calls[t].scene])
                    ELSE r.st,
                    t, [calls[t] EXCEPT !.pc = "ret"])

\* action_loop, line 19: the first action is taken and called
LoopCall ==
  /\ loop_pc = "loop"
  /\ Len(action_queue) > 0
  /\ loop_pc' = "action"
  /\ UNCHANGED <<projects, project, fs, action_queue, action_lock,
                 telemetry, saved, concat_runs, last, Client, calls>>

\* action_loop, lines 19-20: the action returns and save_projects is entered
LoopReturn ==
  /\ loop_pc = "action"
  /\ LET a == Head(action_queue)
         s0 == [St EXCEPT !.action_queue = Tail(@)]
     IN \E res \in (IF a.kind = "split" THEN SplitResults
                    ELSE {CHOOSE r \in SplitResults : TRUE}) :
          Install(RunAction(s0, a, res))
  /\ loop_pc' = "save_projects"
  /\ UNCHANGED last

\* action_loop, line 20: save_projects returns
LoopSaved ==
  /\ loop_pc = "save_projects"
  /\ Install(save_projects(St))
  /\ loop_pc' = "loop"
  /\ UNCHANGED last

\* no project is registered and none has been split
InitSerial ==
  /\ IdleRegistry
  /\ Client = NewClient(0, {})

NextSerial ==
  \/ \E t \in Callers, p \in ProjectIds : AddBegin(t, p)
  \/ \E t \in Callers : AddSaved(t) \/ AddStarted(t)
  \/ LoopWait
  \/ LoopCall
  \/ LoopReturn
  \/ LoopSaved
  \/ LoopExit
  \/ LoopClear

SpecSerial == InitSerial /\ [][NextSerial]_vars

\* ------------------------------------------- the client's threads
\* the registry's variables, which the client leaves alone
rvars == <<projects, project, fs, action_queue, action_lock, loop_pc,
           telemetry, saved, concat_runs, last, calls>>

ClientStep(c) == Client' = c /\ UNCHANGED rvars

\* Client.remove_worker
remove_worker(c, w) ==
  [c EXCEPT !.workers = ListRemove(@, w)]

\* Worker.kill: cancel_job changes nothing on the client
kill(c, w) == [c EXCEPT !.worker[w].stopped = TRUE]

RECURSIVE KillAll(_, _)
KillAll(c, ws) ==
  IF ws = <<>> THEN c ELSE KillAll(kill(c, Head(ws)), Tail(ws))

\* Client.stop
stop(c) == KillAll([c EXCEPT !.stopping = TRUE, !.shrink = NoShrink], c.workers)

\* line 510 and line 529
MustLeave(c, w) ==
  Len(c.workers) > c.numworkers \/ c.worker[w].stopped

\* a worker that removes itself after a followed "remove"
Leave(c, w) ==
  LET c1 == remove_worker(c, w)
  IN [c1 EXCEPT !.worker[w].pc = "done",
                !.shrink.gone = IF c.shrink.on THEN @ \cup {w} ELSE @]

\* ------------------------------------------------------- Worker.work
\* line 507
WAcquire(w) ==
  /\ Client.worker[w].pc = "top"
  /\ ~Client.lock
  /\ ClientStep([Client EXCEPT !.lock = TRUE, !.worker[w].pc = "acquired"])

\* line 508
WSetFlag(w) ==
  /\ Client.worker[w].pc = "acquired"
  /\ ClientStep([Client EXCEPT !.worker[w].lock_acquired = TRUE,
                               !.worker[w].pc = "check"])

\* line 510
WCheck(w) ==
  /\ Client.worker[w].pc = "check"
  /\ ClientStep([Client EXCEPT !.worker[w].pc =
                   IF MustLeave(Client, w) THEN "exit_locked" ELSE "dl_check"])

\* line 511
WExitLocked(w) ==
  /\ Client.worker[w].pc = "exit_locked"
  /\ ClientStep([Client EXCEPT !.worker[w].pc =
                   IF Client.lock THEN "exit_release" ELSE "exit_remove"])

\* line 512 releasing download_lock too
WExitRelease_Both(w) ==
  /\ Client.worker[w].pc = "exit_release"
  /\ ClientStep(IF Client.lock
                THEN [Client EXCEPT !.lock = FALSE, !.download_lock = FALSE,
                                    !.worker[w].pc = "exit_remove"]
                ELSE [Client EXCEPT !.worker[w].pc = "dead"])

\* line 512; release() of an unlocked Lock raises and ends the thread
WExitRelease(w) ==
  /\ Client.worker[w].pc = "exit_release"
  /\ ClientStep(IF Client.lock
                THEN [Client EXCEPT !.lock = FALSE,
                                    !.worker[w].pc = "exit_remove"]
                ELSE [Client EXCEPT !.worker[w].pc = "dead"])

\* lines 513-514
WExitRemove(w) ==
  /\ Client.worker[w].pc = "exit_remove"
  /\ ClientStep(Leave(Client, w))

\* line 516
WDlCheck(w) ==
  /\ Client.worker[w].pc = "dl_check"
  /\ ClientStep([Client EXCEPT !.worker[w].pc =
                   IF Client.download_lock THEN "busy_release" ELSE "dl_acquire"])

\* line 517
WBusyRelease(w) ==
  /\ Client.worker[w].pc = "busy_release"
  /\ ClientStep(IF Client.lock
                THEN [Client EXCEPT !.lock = FALSE,
                                    !.worker[w].pc = "busy_flag"]
                ELSE [Client EXCEPT !.worker[w].pc = "dead"])

\* lines 518-519
WBusyFlag(w) ==
  /\ Client.worker[w].pc = "busy_flag"
  /\ ClientStep([Client EXCEPT !.worker[w].lock_acquired = FALSE,
                               !.worker[w].pc = "top"])

\* line 521
WDlAcquire(w) ==
  /\ Client.worker[w].pc = "dl_acquire"
  /\ ~Client.download_lock
  /\ ClientStep([Client EXCEPT !.download_lock = TRUE,
                               !.worker[w].holds_download = TRUE,
                               !.worker[w].pc = "fetch"])

\* the {"projectid", "scene"} pair a Job object names: "j1again" is a second
\* Job the coordinator builds for the scene of "j1"
JobKey(j) == IF j = "j1again" THEN "j1" ELSE j

\* fetch_new_job, lines 295-298: the exclusion list sent to the coordinator
Excluded(c) ==
  {JobKey(c.worker[w].job[1]) :
     w \in {x \in Range(c.workers) : c.worker[x].job # <<>>}}
    \cup {JobKey(j) : j \in Range(c.upload_queue)}
    \cup {JobKey(j) : j \in Range(c.uploading)}

\* what fetch_new_job can come back with: no job, a job the exclusion list
\* does not name, or a job of another encoder version
FetchResults(c) ==
  {[kind |-> "none", job |-> ""], [kind |-> "version", job |-> ""]}
    \cup {[kind |-> "job", job |-> j] :
            j \in {x \in c.coordinator : JobKey(x) \notin Excluded(c)}}

\* lines 525-526 with fetch_new_job
WFetch(w) ==
  /\ Client.worker[w].pc = "fetch"
  /\ \E r \in FetchResults(Client) :
       ClientStep(
         IF r.kind = "job"
         THEN [Client EXCEPT
                 !.coordinator = @ \ {r.job},
                 !.worker[w].job = <<r.job>>,
                 !.worker[w].pc = "download"]
         ELSE LET c == IF r.kind = "version" THEN stop(Client) ELSE Client
              IN [c EXCEPT !.worker[w].i = 0, !.worker[w].pc = "wait_check"])

\* lines 528-529
WWaitCheck(w) ==
  /\ Client.worker[w].pc = "wait_check"
  /\ ClientStep([Client EXCEPT
                   !.worker_timer = FALSE,
                   !.worker[w].pc =
                     IF MustLeave(Client, w) THEN "wexit_locked" ELSE "wait_sleep"])

\* lines 536-537: the wait ends by set() or after one second
WWaitSleep(w) ==
  /\ Client.worker[w].pc = "wait_sleep"
  /\ ClientStep(IF Client.worker[w].i + 1 < MaxWaits
                THEN [Client EXCEPT !.worker_timer = FALSE,
                                    !.worker[w].i = @ + 1,
                                    !.worker[w].pc = "wait_check"]
                ELSE [Client EXCEPT !.worker_timer = FALSE,
                                    !.worker[w].i = 0,
                                    !.worker[w].pc = "fetch"])

\* line 530
WWaitExitLocked(w) ==
  /\ Client.worker[w].pc = "wexit_locked"
  /\ ClientStep([Client EXCEPT !.worker[w].pc =
                   IF Client.lock THEN "wexit_release" ELSE "wexit_dl"])

\* line 531
WWaitExitRelease(w) ==
  /\ Client.worker[w].pc = "wexit_release"
  /\ ClientStep(IF Client.lock
                THEN [Client EXCEPT !.lock = FALSE,
                                    !.worker[w].pc = "wexit_dl"]
                ELSE [Client EXCEPT !.worker[w].pc = "dead"])

\* line 532
WWaitExitDl(w) ==
  /\ Client.worker[w].pc = "wexit_dl"
  /\ ClientStep(IF Client.download_lock
                THEN [Client EXCEPT !.download_lock = FALSE,
                                    !.worker[w].holds_download = FALSE,
                                    !.worker[w].pc = "wexit_remove"]
                ELSE [Client EXCEPT !.worker[w].pc = "dead"])

\* lines 533-534
WWaitExitRemove(w) ==
  /\ Client.worker[w].pc = "wexit_remove"
  /\ ClientStep(Leave(Client, w))

\* line 542, tmp_file: the download ends with the file written (also when
\* it was cut short by stopped) and the body runs, or it raises before the
\* body, which line 594 swallows
WDownload(w) ==
  /\ Client.worker[w].pc = "download"
  /\ \E entered \in BOOLEAN :
       ClientStep([Client EXCEPT !.worker[w].pc =
                     IF entered THEN "body_locked" ELSE "after"])

\* line 543
WBodyLocked(w) ==
  /\ Client.worker[w].pc = "body_locked"
  /\ ClientStep([Client EXCEPT !.worker[w].pc =
                   IF Client.lock THEN "body_release" ELSE "body_dl"])

\* line 544; what release() raises here is swallowed by line 594
WBodyRelease(w) ==
  /\ Client.worker[w].pc = "body_release"
  /\ ClientStep(IF Client.lock
                THEN [Client EXCEPT !.lock = FALSE,
                                    !.worker[w].pc = "body_dl"]
                ELSE [Client EXCEPT !.worker[w].pc = "after"])

\* the body without line 545: the download lock is kept
WBodyDl_Keeps(w) ==
  /\ Client.worker[w].pc = "body_dl"
  /\ ClientStep([Client EXCEPT !.worker[w].pc = "body_flag"])

\* line 545
WBodyDl(w) ==
  /\ Client.worker[w].pc = "body_dl"
  /\ ClientStep(IF Client.download_lock
                THEN [Client EXCEPT !.download_lock = FALSE,
                                    !.worker[w].holds_download = FALSE,
                                    !.worker[w].pc = "body_flag"]
                ELSE [Client EXCEPT !.worker[w].pc = "after"])

\* line 546
WBodyFlag(w) ==
  /\ Client.worker[w].pc = "body_flag"
  /\ ClientStep([Client EXCEPT !.worker[w].lock_acquired = FALSE,
                               !.worker[w].pc = "body_stopped"])

\* lines 548-549, then the encoder is started (line 110)
WBodyStopped(w) ==
  /\ Client.worker[w].pc = "body_stopped"
  /\ ClientStep(IF Client.worker[w].stopped
                THEN [Client EXCEPT !.worker[w].pc = "done"]
                ELSE [Client EXCEPT !.worker[w].pc = "encode"])

\* lines 116 and 127
WEncodeProgress(w) ==
  /\ Client.worker[w].pc = "encode"
  /\ Client.worker[w].progress < MaxProgress
  /\ ClientStep([Client EXCEPT !.worker[w].progress = @ + 1])

\* lines 551-592: the encode ends with an output file, or without one
WEncodeDone(w) ==
  /\ Client.worker[w].pc = "encode"
  /\ \E success \in BOOLEAN :
       ClientStep(IF success
                  THEN [Client EXCEPT
                          !.outputs = @ \cup {Client.worker[w].job[1]},
                          !.worker[w].pc = "upload_append"]
                  ELSE [Client EXCEPT !.worker[w].pc = "after"])

\* Client.upload, line 280
WUploadAppend(w) ==
  /\ Client.worker[w].pc = "upload_append"
  /\ ClientStep([Client EXCEPT !.upload_queue = Append(@, Client.worker[w].job[1]),
                               !.enqueued = Append(@, Client.worker[w].job[1]),
                               !.worker[w].pc = "upload_set"])

\* Client.upload, line 281
WUploadSet(w) ==
  /\ Client.worker[w].pc = "upload_set"
  /\ ClientStep([Client EXCEPT !.upload_queue_event = TRUE,
                               !.worker[w].pc = "job_none"])

\* line 587
WJobNone(w) ==
  /\ Client.worker[w].pc = "job_none"
  /\ ClientStep([Client EXCEPT !.worker[w].job = <<>>,
                               !.worker[w].pc = "after"])

\* line 596
WAfter(w) ==
  /\ Client.worker[w].pc = "after"
  /\ ClientStep([Client EXCEPT !.worker[w].pc =
                   IF Client.worker[w].lock_acquired THEN "after_release"
                   ELSE "top"])

\* line 597
WAfterRelease(w) ==
  /\ Client.worker[w].pc = "after_release"
  /\ ClientStep(IF Client.lock
                THEN [Client EXCEPT !.lock = FALSE,
                                    !.worker[w].pc = "after_dl"]
                ELSE [Client EXCEPT !.worker[w].pc = "dead"])

\* line 598
WAfterDl(w) ==
  /\ Client.worker[w].pc = "after_dl"
  /\ ClientStep(IF Client.download_lock
                THEN [Client EXCEPT !.download_lock = FALSE,
                                    !.worker[w].holds_download = FALSE,
                                    !.worker[w].pc = "top"]
                ELSE [Client EXCEPT !.worker[w].pc = "dead"])

WorkerStep(w) ==
  \/ WAcquire(w) \/ WSetFlag(w) \/ WCheck(w)
  \/ WExitLocked(w) \/ WExitRelease(w) \/ WExitRemove(w)
  \/ WDlCheck(w) \/ WBusyRelease(w) \/ WBusyFlag(w) \/ WDlAcquire(w)
  \/ WFetch(w) \/ WWaitCheck(w) \/ WWaitSleep(w)
  \/ WWaitExitLocked(w) \/ WWaitExitRelease(w) \/ WWaitExitDl(w)
  \/ WWaitExitRemove(w)
  \/ WDownload(w) \/ WBodyLocked(w) \/ WBodyRelease(w) \/ WBodyDl(w)
  \/ WBodyFlag(w) \/ WBodyStopped(w)
  \/ WEncodeProgress(w) \/ WEncodeDone(w)
  \/ WUploadAppend(w) \/ WUploadSet(w) \/ WJobNone(w)
  \/ WAfter(w) \/ WAfterRelease(w) \/ WAfterDl(w)

\* --------------------------------------------------------- Client.key_loop
\* a Worker id no thread and no list uses any more
FreeIds(c) ==
  SelectSeq(WorkerOrder,
            LAMBDA w : /\ c.worker[w].pc \in {"none", "done", "dead"}
                       /\ w \notin Range(c.workers)
                       /\ ~c.worker[w].holds_download)

\* lines 413-415 with add_worker
RECURSIVE Spawn(_)
Spawn(c) ==
  IF Len(c.workers) >= c.numworkers \/ FreeIds(c) = <<>> THEN c
  ELSE LET w == Head(FreeIds(c))
       IN Spawn([c EXCEPT !.workers = Append(@, w), !.worker[w] = NewWorker])

\* "add", lines 411-415: with stopping set add_worker returns at once and
\* the while loop never ends
KeyAdd ==
  /\ Client.key_loop = "run"
  /\ Client.numworkers < Len(WorkerOrder)
  /\ LET c == [Client EXCEPT !.numworkers = @ + 1, !.shrink = NoShrink]
     IN /\ Len(FreeIds(c)) >= c.numworkers - Len(c.workers)
        /\ ClientStep(IF c.stopping /\ Len(c.workers) < c.numworkers
                      THEN [c EXCEPT !.key_loop = "hung"]
                      ELSE Spawn(c))

\* lines 419-422 and 428-431
SomeWaiting(c) ==
  \E w \in Range(c.workers) :
    c.worker[w].job = <<>> /\ ~c.worker[w].lock_acquired

SomeAcquired(c) ==
  \E w \in Range(c.workers) : c.worker[w].lock_acquired

Encoding(c) == {w \in Range(c.workers) : c.worker[w].pc = "encode"}

\* "remove", lines 417-422; shrink notes a remove issued on a full pool
\* with some worker in its encode
KeyRemove ==
  /\ Client.key_loop = "run"
  /\ LET c == [Client EXCEPT
                 !.numworkers = IF @ - 1 > 0 THEN @ - 1 ELSE 0,
                 !.shrink =
                   IF /\ Len(Client.workers) = Client.numworkers
                      /\ Encoding(Client) # {}
                   THEN [on |-> TRUE, mid |-> Encoding(Client), gone |-> {}]
                   ELSE NoShrink]
     IN ClientStep(IF c.lock /\ SomeWaiting(c)
                   THEN [c EXCEPT !.lock = FALSE]
                   ELSE IF SomeAcquired(c)
                        THEN [c EXCEPT !.worker_timer = TRUE]
                        ELSE c)

\* line 433: the sort key of a worker, None written as -1
KillKey(c, w) ==
  <<IF c.worker[w].pc = "encode" THEN 1 ELSE 0,
    c.worker[w].progress,
    IF c.worker[w].lock_acquired THEN 1 ELSE 0,
    IF c.worker[w].job # <<>> THEN 1 ELSE -1>>

\* comparing two keys raises when they first differ at 1 against None
KeysRaise(a, b) ==
  a[1] = b[1] /\ a[2] = b[2] /\ a[3] = b[3] /\ a[4] # b[4]

KeyLess(a, b) ==
  \/ a[1] < b[1]
  \/ a[1] = b[1] /\ a[2] < b[2]
  \/ a[1] = b[1] /\ a[2] = b[2] /\ a[3] < b[3]

\* "kill", lines 424-438
KeyKill ==
  /\ Client.key_loop = "run"
  /\ LET c == [Client EXCEPT
                 !.numworkers =
                   IF \/ Len(Client.workers) = Client.numworkers
                      \/ \E w \in Range(Client.workers) : Client.worker[w].job = <<>>
                   THEN (IF @ - 1 > 0 THEN @ - 1 ELSE 0) ELSE @,
                 !.shrink = NoShrink]
         alive == SelectSeq(c.workers, LAMBDA w : ~c.worker[w].stopped)
         first == CHOOSE k \in 1..Len(alive) :
                    \A m \in 1..Len(alive) :
                      /\ ~KeyLess(KillKey(c, alive[m]), KillKey(c, alive[k]))
                      /\ m < k => KeyLess(KillKey(c, alive[k]), KillKey(c, alive[m]))
     IN ClientStep(
          IF c.lock /\ SomeWaiting(c) THEN [c EXCEPT !.lock = FALSE]
          ELSE IF SomeAcquired(c) THEN [c EXCEPT !.worker_timer = TRUE]
          ELSE IF alive = <<>> THEN c
          ELSE IF \E k, m \in 1..Len(alive) :
                    KeysRaise(KillKey(c, alive[k]), KillKey(c, alive[m]))
               THEN [c EXCEPT !.key_loop = "dead"]
               ELSE remove_worker(kill(c, alive[first]), alive[first]))

\* "quit", lines 440-441
KeyQuit ==
  /\ Client.key_loop = "run"
  /\ ClientStep(stop(Client))

KeyStep == KeyAdd \/ KeyRemove \/ KeyKill \/ KeyQuit

\* ----------------------------------------------------- Client._upload_loop
\* what the coordinator answers to finish_job, "none" when no answer came;
\* "frame mismatch" stands for every text but "saved" and "bad upload" that
\* comes with a status below 400, "error 500" for an answer with a status
\* of 400 or more
Responses == {"saved", "bad upload", "frame mismatch", "error 500", "none"}

\* `if r:` at line 249: upload() returned a Response, and the Response is
\* true, which requests defines as a status below 400
Truthy(r) == r \notin {"none", "error 500"}

\* lines 249-270 deleting the output before a retry
Respond_DeleteOnRetry(c, r) ==
  IF r = "saved"
  THEN [c EXCEPT !.completed = @ + 1, !.uploader.pc = "delete"]
  ELSE IF r = "bad upload" /\ c.uploader.uploads > 0
  THEN [c EXCEPT !.uploader.uploads = @ - 1,
                 !.outputs = @ \ {c.uploader.job[1]}]
  ELSE IF ~Truthy(r) THEN c
  ELSE [c EXCEPT !.failed = @ + 1, !.uploader.pc = "delete"]

\* lines 249-270 without the count of line 261
Respond_UncountedFailure(c, r) ==
  IF r = "saved"
  THEN [c EXCEPT !.completed = @ + 1, !.uploader.pc = "delete"]
  ELSE IF r = "bad upload" /\ c.uploader.uploads > 0
  THEN [c EXCEPT !.uploader.uploads = @ - 1]
  ELSE IF ~Truthy(r) THEN c
  ELSE [c EXCEPT !.uploader.pc = "delete"]

\* lines 249-270
Respond(c, r) ==
  IF r = "saved"
  THEN [c EXCEPT !.completed = @ + 1, !.uploader.pc = "delete"]
  ELSE IF r = "bad upload" /\ c.uploader.uploads > 0
  THEN [c EXCEPT !.uploader.uploads = @ - 1]
  ELSE IF ~Truthy(r) THEN c
  ELSE [c EXCEPT !.failed = @ + 1, !.uploader.pc = "delete"]

\* line 237
UIdle ==
  /\ Client.uploader.pc = "idle"
  /\ ClientStep([Client EXCEPT !.uploader.pc =
                   IF Len(Client.upload_queue) = 0 THEN "wait" ELSE "clear"])

\* line 238
UWait ==
  /\ Client.uploader.pc = "wait"
  /\ Client.upload_queue_event
  /\ ClientStep([Client EXCEPT !.uploader.pc = "clear"])

\* line 240
UClear ==
  /\ Client.uploader.pc = "clear"
  /\ ClientStep([Client EXCEPT !.upload_queue_event = FALSE,
                               !.uploader.pc = "pop"])

\* a consumer that takes the newest item: pop() in place of popleft()
UPop_Last ==
  /\ Client.uploader.pc = "pop"
  /\ ClientStep(IF Client.upload_queue = <<>>
                THEN [Client EXCEPT !.uploader.pc = "dead"]
                ELSE LET n == Len(Client.upload_queue)
                     IN [Client EXCEPT !.uploader.job = <<Client.upload_queue[n]>>,
                                       !.taken = Append(@, Client.upload_queue[n]),
                                       !.upload_queue = SubSeq(@, 1, n - 1),
                                       !.uploader.pc = "mark"])

\* line 242: popleft() of an empty deque raises and ends the thread
UPop ==
  /\ Client.uploader.pc = "pop"
  /\ ClientStep(IF Client.upload_queue = <<>>
                THEN [Client EXCEPT !.uploader.pc = "dead"]
                ELSE [Client EXCEPT !.uploader.job = <<Head(Client.upload_queue)>>,
                                    !.taken = Append(@, Head(Client.upload_queue)),
                                    !.upload_queue = Tail(@),
                                    !.uploader.pc = "mark"])

\* lines 243-245
UMark ==
  /\ Client.uploader.pc = "mark"
  /\ ClientStep([Client EXCEPT !.uploading = Client.uploader.job,
                               !.uploader.uploads = UploadRetries,
                               !.uploader.pc = "send"])

\* lines 247-270 with upload(): open(output) raises when the file is gone
USend ==
  /\ Client.uploader.pc = "send"
  /\ \E r \in Responses :
       ClientStep(IF Client.uploader.job[1] \notin Client.outputs
                  THEN [Client EXCEPT !.uploader.pc = "dead"]
                  ELSE Respond(Client, r))

\* lines 272-276
UDelete ==
  /\ Client.uploader.pc = "delete"
  /\ ClientStep([Client EXCEPT !.outputs = @ \ {Client.uploader.job[1]},
                               !.uploader.pc = "finish"])

\* lines 278-279
UFinish ==
  /\ Client.uploader.pc = "finish"
  /\ ClientStep([Client EXCEPT !.uploading = <<>>, !.uploader.pc = "idle"])

UploaderStep ==
  UIdle \/ UWait \/ UClear \/ UPop \/ UMark \/ USend \/ UDelete \/ UFinish

\* ------------------------------------------------- the client's behaviours
InitClient ==
  /\ IdleRegistry
  /\ Client \in {NewClient(n, PoolJobs) : n \in 1..Len(WorkerOrder)}

InitUpload ==
  /\ IdleRegistry
  /\ Client \in {NewClient(n, UploadJobs) : n \in 1..Len(WorkerOrder)}

\* the worker pool under the menu of the key loop
NextClient ==
  \/ \E w \in WorkerIds : WorkerStep(w)
  \/ KeyStep

SpecClient == InitClient /\ [][NextClient]_vars

\* ------------------------------------------ "add" against a stop, by steps
\* The key loop's "add" runs in its own thread while a Worker's
\* fetch_new_job calls stop(); key_loop then tells where the handler is.

\* lines 411-412
KAddBegin ==
  /\ Client.key_loop = "run"
  /\ Client.numworkers < Len(WorkerOrder)
  /\ ClientStep([Client EXCEPT !.numworkers = @ + 1, !.shrink = NoShrink,
                               !.key_loop = "add_while"])

\* line 413
KAddWhile ==
  /\ Client.key_loop = "add_while"
  /\ ClientStep([Client EXCEPT !.key_loop =
                   IF Len(Client.workers) < Client.numworkers
                   THEN "add_worker" ELSE "run"])

\* lines 414-415 and add_worker's line 343: with stopping set the call
\* returns and the while loop of line 413 never ends
KAddStopping ==
  /\ Client.key_loop = "add_worker"
  /\ FreeIds(Client) # <<>>
  /\ ClientStep([Client EXCEPT !.key_loop =
                   IF Client.stopping THEN "hung" ELSE "add_append"])

\* add_worker, lines 344-345
KAddAppend ==
  /\ Client.key_loop = "add_append"
  /\ FreeIds(Client) # <<>>
  /\ LET w == Head(FreeIds(Client))
     IN ClientStep([Client EXCEPT !.workers = Append(@, w),
                                  !.worker[w] = NewWorker,
                                  !.key_loop = "add_while"])

InitStop ==
  /\ IdleRegistry
  /\ Client \in {NewClient(n, PoolJobs) : n \in 1..Len(WorkerOrder)}

\* the worker pool under an "add" that runs step by step
NextStop ==
  \/ \E w \in WorkerIds : WorkerStep(w)
  \/ KAddBegin \/ KAddWhile \/ KAddStopping \/ KAddAppend

SpecStop == InitStop /\ [][NextStop]_vars

\* the workers and the upload thread
NextUpload ==
  \/ \E w \in WorkerIds : WorkerStep(w)
  \/ UploaderStep

SpecUpload == InitUpload /\ [][NextUpload]_vars

\* the same threads, with a coordinator that has two Jobs for one scene
InitRefetch ==
  /\ IdleRegistry
  /\ Client \in {NewClient(n, RefetchJobs) : n \in 1..Len(WorkerOrder)}

SpecRefetch == InitRefetch /\ [][NextUpload]_vars

\* ------------------------------------------------------------ properties
\* whether an entry of the exclusion list is the job's (projectid, scene)
Named(job, skip_jobs) ==
  \E e \in skip_jobs :
    e.projectid = JStr(job.projectid) /\ e.scene = JStr(job.scene)

\* C1: get_job never returns a job whose (projectid, scene) is an entry of
\* skip_jobs, and returns None when every existing job is named by an entry
\* (or no job exists), for every registry and every exclusion list.
C1_GetJobHonoursExclusion ==
  \A skip_jobs \in SkipLists :
    LET r == get_job(St, skip_jobs)
    IN /\ r # <<>> => ~Named(r[1], skip_jobs)
       /\ (\A job \in Range(AllJobs(St, projects)) : Named(job, skip_jobs))
            => r = <<>>

\* C1 witness: get_job returned None although the registry holds jobs
C1_Witness ==
  /\ last.op = "get_job"
  /\ last.ret = <<>>
  /\ AllJobs(St, projects) # <<>>

\* a is not behind b in the order (priority, number of workers, frames)
NotBehind(a, b) ==
  \/ a.priority < b.priority
  \/ a.priority = b.priority /\ Len(a.workers) < Len(b.workers)
  \/ /\ a.priority = b.priority
     /\ Len(a.workers) = Len(b.workers)
     /\ a.frames <= b.frames

\* C2: whenever a job is eligible (no entry of the exclusion list matches
\* it), get_job returns an eligible job that is minimal among the eligible
\* jobs of all projects under (priority, assigned workers, frames).
C2_GetJobMinimal ==
  \A skip_jobs \in SkipLists :
    LET r == get_job(St, skip_jobs)
        eligible == {job \in Range(AllJobs(St, projects)) :
                       ~Skipped(job, skip_jobs)}
    IN eligible # {} =>
         /\ r # <<>>
         /\ r[1] \in eligible
         /\ \A job \in eligible : NotBehind(r[1], job)

\* C2 witness: get_job returned a job while the registry holds a job of a
\* higher priority value and a job of the same priority with more workers
C2_Witness ==
  /\ last.op = "get_job"
  /\ last.ret # <<>>
  /\ \E j1, j2 \in Range(AllJobs(St, projects)) :
       /\ j1.priority > last.ret[1].priority
       /\ j2.priority = last.ret[1].priority
       /\ Len(j2.workers) > Len(last.ret[1].workers)

\* a file that decodes to the scene's frame count, sent with the job's params
ValidUpload(p, scene_number, params, file) ==
  /\ ReadsFile(p, scene_number, params)
  /\ file.size > 0
  /\ Decode(project[p].jobs[scene_number], file).how = "ok"
  /\ Decode(project[p].jobs[scene_number], file).frames
       = <<project[p].scenes[scene_number].frames>>

\* C3: a check_job call with a valid artifact that returns "saved" is
\* followed, when the same call is made again on the resulting registry,
\* by "already done".
C3_SavedThenAlreadyDone ==
  \A p \in ProjectIds, s \in Scenes, c \in Clients,
     params \in SubmittedParams, file \in Artifacts :
    ValidUpload(p, s, params, file) =>
      LET r == check_job(St, p, c, params[1], params[2], params[3], s, file, 0)
      IN r.ret = "saved" =>
           check_job(r.st, p, c, params[1], params[2], params[3], s, file, 0).ret
             = "already done"

\* C4: a check_job call with matching params and a file whose decoded frame
\* count differs from the scene's frames returns "frame mismatch", leaves no
\* stored artifact, leaves the client out of the job's workers, leaves the
\* scene's filesize 0, and leaves the Job in the job map, where get_job
\* returns it for some exclusion list.
C4_FrameMismatch ==
  \A p \in ProjectIds, s \in Scenes, c \in Clients,
     params \in SubmittedParams, file \in Artifacts :
    (/\ ReadsFile(p, s, params)
     /\ file.size > 0
     /\ Decode(project[p].jobs[s], file).how = "ok"
     /\ Decode(project[p].jobs[s], file).frames # <<project[p].scenes[s].frames>>)
      => LET r == check_job(St, p, c, params[1], params[2], params[3], s, file, 0)
         IN /\ r.ret = "frame mismatch"
            /\ r.st.fs.encode[p][s] = NoFile
            /\ s \in DOMAIN r.st.project[p].jobs
            /\ c \notin Range(r.st.project[p].jobs[s].workers)
            /\ r.st.project[p].scenes[s].filesize = 0
            /\ \E skip_jobs \in SkipLists :
                 get_job(r.st, skip_jobs) = <<r.st.project[p].jobs[s]>>

\* C4 witness: a call has just returned "frame mismatch" for a scene whose
\* job is still there and whose artifact is gone
C4_Witness ==
  /\ last = [op |-> "check_job", ret |-> "frame mismatch"]
  /\ \E p \in Range(projects) : \E s \in DOMAIN project[p].jobs :
       /\ fs.encode[p][s] = NoFile
       /\ fs.encdir[p]
       /\ project[p].scenes[s].filesize = 0

\* a complete action of project p waits in the action queue
CompleteQueued(p) ==
  \E i \in 1..Len(action_queue) :
    action_queue[i] = [kind |-> "complete", projectid |-> p]

AllSaved(p) ==
  /\ p \in Range(projects)
  /\ project[p].status = "ready"
  /\ project[p].input_total_frames = project[p].total_frames
  /\ DOMAIN project[p].jobs = {}
  /\ \A s \in DOMAIN project[p].scenes : project[p].scenes[s].filesize > 0

\* C6: once every scene of a ready project has been saved, the status
\* eventually becomes "complete" with concat run exactly once.
C6_AllSavedLeadsToComplete ==
  \A p \in Submitted :
    AllSaved(p) ~> (project[p].status = "complete" /\ concat_runs[p] = 1)

\* C7: after a "remove" issued on a full pool (len(workers) == numworkers)
\* while some worker is in its encode, at most one worker removes itself,
\* no worker that was in its encode at the time of the remove does, and
\* the pool never holds fewer than numworkers workers.
C7_ShrinkRemovesOne ==
  Client.shrink.on =>
    /\ Cardinality(Client.shrink.gone) <= 1
    /\ Client.shrink.gone \cap Client.shrink.mid = {}
    /\ Len(Client.workers) >= Client.numworkers

\* the positions of Worker.work between lock.acquire() returning and the
\* worker's own lock.release()
SectionPcs ==
  {"acquired", "check", "exit_locked", "exit_release", "dl_check",
   "busy_release", "dl_acquire", "fetch", "wait_check", "wait_sleep",
   "wexit_locked", "wexit_release", "download", "body_locked", "body_release"}

Negotiating(w) ==
  \/ Client.worker[w].pc \in SectionPcs
  \/ /\ Client.worker[w].pc \in {"after", "after_release"}
     /\ Client.worker[w].lock_acquired

\* C8: while the uploader has an item in hand that can still be sent again
\* (no terminal answer yet, whatever retries happened) its output file
\* exists; whenever the uploader is about to take the next item, the output
\* file of the item it handled last is gone.
C8_DeleteOnlyAfterTerminal ==
  /\ Client.uploader.pc \in {"mark", "send"}
       => Client.uploader.job[1] \in Client.outputs
  /\ (Client.uploader.pc \in {"idle", "wait", "clear", "pop"}
      /\ Client.uploader.job # <<>>)
       => Client.uploader.job[1] \notin Client.outputs

\* C8 witness: the second item is in hand after two "bad upload" answers,
\* its file is there and the file of the first item is gone
C8_Witness ==
  /\ Client.uploader.pc = "send"
  /\ Client.uploader.uploads = UploadRetries - 2
  /\ Client.completed + Client.failed = 1
  /\ Client.outputs = {Client.uploader.job[1]}

\* C9: at most one Worker is between acquiring the fetch lock and releasing
\* it, under every interleaving of the worker threads and the menu actions.
C9_OneNegotiator ==
  Cardinality({w \in WorkerIds : Negotiating(w)}) <= 1

\* C10: at most one Worker holds download_lock, under every interleaving of
\* the worker threads and the menu actions.
C10_OneDownloader ==
  Cardinality({w \in WorkerIds : Client.worker[w].holds_download}) <= 1

\* C10 witness: a Worker holds download_lock after giving up the fetch lock
\* and another Worker, holding the fetch lock, has found download_lock held
C10_Witness ==
  \E w1, w2 \in WorkerIds :
    /\ Client.worker[w1].holds_download
    /\ Client.worker[w1].pc = "body_dl"
    /\ Client.worker[w2].pc = "busy_release"
    /\ Client.download_lock

\* C11: the upload loop takes the (job, output) items in exactly the order
\* Client.upload appended them, whatever the interleaving of the appending
\* workers and the consumer: the items taken so far are the first items
\* appended, the queue holds the rest in order, and at most one taken item
\* has not yet been counted as completed or failed, and it is the one the
\* loop is working on.
C11_UploadFifo ==
  LET n == Len(Client.taken)
  IN /\ n <= Len(Client.enqueued)
     /\ Client.taken = SubSeq(Client.enqueued, 1, n)
     /\ Client.upload_queue = SubSeq(Client.enqueued, n + 1, Len(Client.enqueued))
     /\ n - (Client.completed + Client.failed) \in {0, 1}
     /\ n - (Client.completed + Client.failed) = 1
          => Client.uploader.pc \in {"mark", "send", "dead"}

\* the loop is sending the item appended first while the item appended
\* second waits in the queue
C11_Witness ==
  /\ Len(Client.enqueued) = 2
  /\ Len(Client.taken) = 1
  /\ Client.uploader.pc = "send"

\* the project has been through start() with matching frame totals
OnceReady(p) == project[p].status \in {"ready", "done! joining files", "complete"}

C13_NoSceneHeldTwice ==
  \A w \in Range(Client.workers) :
    Client.worker[w].job # <<>> =>
      LET j == Client.worker[w].job[1]
      IN /\ \A x \in Range(Client.workers) \ {w} :
              Client.worker[x].job # <<>>
                => JobKey(Client.worker[x].job[1]) # JobKey(j)
         /\ \A u \in Range(Client.upload_queue) \cup Range(Client.uploading) :
              u # j => JobKey(u) # JobKey(j)

\* both calls have returned, and both were for the scene s
BothReturned(s) ==
  \A t \in Callers : calls[t].pc = "ret" /\ calls[t].scene = s

\* C14: when two check_job calls with valid artifacts for the same pending
\* scene overlap, exactly one returns "saved", the other returns one of the
\* rejection statuses (it does not raise), only one of them set the scene's
\* filesize, and the project's complete action is in the queue at most once.
C14_FirstValidUploadWins ==
  /\ \A s \in Scenes :
       BothReturned(s) =>
         \E t \in Callers : \E u \in Callers \ {t} :
           /\ calls[t].ret = "saved"
           /\ calls[u].ret \in {"job not found", "already done"}
           /\ ~calls[u].stat
  /\ Cardinality({i \in 1..Len(action_queue) :
                    action_queue[i] = [kind |-> "complete", projectid |-> "p1"]}) <= 1

\* C15: check_job tests in the order project not found, job not found,
\* bad params, already done: the first of these conditions that holds
\* decides what the call returns, whatever the later ones are; and a call
\* that returns "project not found", "job not found" or "already done"
\* leaves the registry, the telemetry, the action queue and the stored
\* files as they were.
C15_RejectionOrder ==
  \A p \in ProjectIds, s \in Scenes, c \in Clients,
     params \in SubmittedParams, file \in Artifacts :
    LET r == check_job(St, p, c, params[1], params[2], params[3], s, file, 0)
    IN /\ r.ret = IF p \notin Range(projects) THEN "project not found"
                  ELSE IF s \notin DOMAIN project[p].jobs THEN "job not found"
                  ELSE IF <<project[p].jobs[s].encoder,
                            project[p].jobs[s].encoder_params,
                            project[p].jobs[s].ffmpeg_params>> # params
                  THEN "bad params"
                  ELSE IF project[p].scenes[s].filesize > 0 THEN "already done"
                  ELSE r.ret
       /\ r.ret \in {"project not found", "job not found", "already done"}
            => r.st = St

\* C15 witness: a call has returned "already done" for a scene whose Job is
\* still in the job map with a nonzero filesize, so that a call with other
\* params meets "bad params" and "already done" at once
C15_Witness ==
  \E t \in Callers : \E u \in Callers \ {t} :
    /\ calls[t].ret = "already done"
    /\ calls[u].pc = "integrate"
    /\ calls[t].scene = calls[u].scene
    /\ calls[t].scene \in DOMAIN project["p1"].jobs
    /\ project["p1"].scenes[calls[t].scene].filesize > 0

\* C16: a Worker whose fetch came back empty leaves its last one-second
\* wait for the top of its loop with the fetch lock given up, to negotiate
\* for the lock again; it does not keep the lock for another fetch.
C16_WaitEndsAtTop ==
  [][\A w \in WorkerIds :
       (/\ Client.worker[w].pc = "wait_sleep"
        /\ Client'.worker[w].pc \notin {"wait_sleep", "wait_check"})
         => /\ Client'.worker[w].pc = "top"
            /\ ~Client'.worker[w].lock_acquired]_vars

\* C17: a Worker that runs the encode step for its job holds neither the
\* download lock nor the fetch lock: its lock_acquired flag is down, and if
\* the fetch lock is taken at all, another Worker took it and has not yet
\* released it.
C17_NoLockAcrossEncode ==
  \A w \in WorkerIds :
    Client.worker[w].pc = "encode"
      => /\ ~Client.worker[w].holds_download
         /\ ~Client.worker[w].lock_acquired
         /\ Client.lock => \E x \in WorkerIds \ {w} : Negotiating(x)

\* C17 witness: one Worker encodes while the other holds both locks
C17_Witness ==
  \E w \in WorkerIds : \E x \in WorkerIds \ {w} :
    /\ Client.worker[w].pc = "encode"
    /\ Client.worker[w].progress > 0
    /\ Client.lock
    /\ Client.download_lock
    /\ Client.worker[x].holds_download

\* C18: a project on which start() found input_total_frames different from
\* total_frames has status "total frame mismatch" and no Job, then and in
\* every later state.
C18_MismatchTerminal ==
  \A p \in Range(projects) :
    (/\ project[p].total_jobs > 0
     /\ project[p].input_total_frames # project[p].total_frames)
      => /\ project[p].status = "total frame mismatch"
         /\ DOMAIN project[p].jobs = {}

\* C19: a get_job call changes nothing in the registry (projects, jobs,
\* workers, scenes, statuses, the action queue, telemetry, files); get_job
\* reads nothing but the registry and the exclusion list, so the same list
\* gets the same job again after the call.
C19_GetJobStateless ==
  [][last'.op = "get_job" => (St' = St /\ loop_pc' = loop_pc)]_vars

\* C19 witness: a call has returned a job that has a worker recorded, and
\* the job is still in its project's job map with that worker
C19_Witness ==
  /\ last.op = "get_job"
  /\ last.ret # <<>>
  /\ last.ret[1].workers # <<>>
  /\ project[last.ret[1].projectid].jobs[last.ret[1].scene] = last.ret[1]

\* C20: a check_job call for a Job whose encoder, encoder_params or
\* ffmpeg_params differ from the submitted ones returns "bad params", leaves
\* the client out of the job's workers, and leaves the files, the scenes
\* with their filesizes, the keys of the job map and the project's status
\* as they were.
C20_BadParams ==
  \A p \in ProjectIds, s \in Scenes, c \in Clients,
     params \in SubmittedParams, file \in Artifacts :
    (/\ JobFound(p, s)
     /\ <<project[p].jobs[s].encoder, project[p].jobs[s].encoder_params,
          project[p].jobs[s].ffmpeg_params>> # params)
      => LET r == check_job(St, p, c, params[1], params[2], params[3], s, file, 0)
         IN /\ r.ret = "bad params"
            /\ c \notin Range(r.st.project[p].jobs[s].workers)
            /\ Range(r.st.project[p].jobs[s].workers)
                 = Range(project[p].jobs[s].workers) \ {c}
            /\ r.st.fs = fs
            /\ r.st.project[p].scenes = project[p].scenes
            /\ DOMAIN r.st.project[p].jobs = DOMAIN project[p].jobs
            /\ r.st.project[p].status = project[p].status
            /\ r.st.saved = saved

\* C20 witness: a call has just returned "bad params" for a project with a
\* pending Job that no client is recorded in and that has no stored file
C20_Witness ==
  /\ last = [op |-> "check_job", ret |-> "bad params"]
  /\ \E p \in Range(projects) : \E s \in DOMAIN project[p].jobs :
       /\ project[p].jobs[s].workers = <<>>
       /\ project[p].scenes[s].filesize = 0
       /\ fs.encode[p][s] = NoFile

\* C21: a check_job call with matching params and a non-empty file on
\* which the decoder exits with a non-zero code returns "bad encode" (it
\* does not raise), leaves no stored artifact, leaves the scene's filesize 0
\* and leaves the Job in the job map.
C21_BadEncodeDiscards ==
  \A p \in ProjectIds, s \in Scenes, c \in Clients,
     params \in SubmittedParams, file \in Artifacts :
    (/\ ReadsFile(p, s, params)
     /\ file.size > 0
     /\ file.rc # 0)
      => LET r == check_job(St, p, c, params[1], params[2], params[3], s, file, 0)
         IN /\ r.ret = "bad encode"
            /\ r.st.fs.encode[p][s] = NoFile
            /\ r.st.project[p].scenes[s].filesize = 0
            /\ s \in DOMAIN r.st.project[p].jobs

\* start() has run to its end on project p and found the frame totals equal
Started(p) ==
  /\ project[p].total_jobs > 0
  /\ project[p].input_total_frames = project[p].total_frames

\* C22: once start() has run on a split project whose frame totals agree,
\* the job map has a Job for exactly the scenes with filesize 0 that are
\* not marked bad; each Job carries the scene's start and frames and the
\* project's encoder, params and priority; and the status is "ready", or
\* "complete" with the output file there.
C22_StartMakesJobs ==
  \A p \in Range(projects) :
    Started(p) =>
      LET P == project[p]
      IN /\ DOMAIN P.jobs = {s \in DOMAIN P.scenes :
                               P.scenes[s].filesize = 0 /\ ~P.scenes[s].bad}
         /\ \A s \in DOMAIN P.jobs :
              [P.jobs[s] EXCEPT !.workers = <<>>]
                = Job(p, s, P.encoder, P.priority, P.encoder_params,
                      P.ffmpeg_params, P.scenes[s].start, P.scenes[s].frames)
         /\ P.status \in {"ready", "complete"}
         /\ P.status = "complete" => fs.out[p]

\* C22 witness: start() has left a resumed project "ready" with a Job for
\* one scene and none for a scene that is bad or encoded already
C22_Witness ==
  \E p \in Range(projects) :
    /\ Started(p)
    /\ project[p].status = "ready"
    /\ last = NoCall
    /\ telemetry.encodes = <<>>
    /\ \E s \in DOMAIN project[p].jobs : project[p].scenes[s].start > 0
    /\ \E s \in DOMAIN project[p].scenes :
         s \notin DOMAIN project[p].jobs

\* C23: with check_job and start taken as single steps, a scene has a Job
\* only while its filesize is 0; a step takes a Job out of the job map only
\* as a check_job call that returns "saved" and sets that scene's filesize;
\* and a step puts a Job into the job map only on a project on which
\* start() has not run before, so a Job that was removed does not come back.
C23_JobOnlyWhilePending ==
  /\ [](\A p \in Range(projects) : \A s \in DOMAIN project[p].jobs :
          project[p].scenes[s].filesize = 0)
  /\ [][\A p \in Range(projects) : \A s \in Scenes :
          /\ (s \in DOMAIN project[p].jobs /\ s \notin DOMAIN project'[p].jobs)
               => /\ last' = [op |-> "check_job", ret |-> "saved"]
                  /\ project[p].scenes[s].filesize = 0
                  /\ project'[p].scenes[s].filesize > 0
          /\ (s \notin DOMAIN project[p].jobs /\ s \in DOMAIN project'[p].jobs)
               => project[p].total_jobs = 0]_vars

\* C23 witness: after a "saved" call the project has no Job left although
\* start() had made one, and the complete action has not run yet
C23_Witness ==
  /\ last = [op |-> "check_job", ret |-> "saved"]
  /\ \E p \in Range(projects) :
       /\ project[p].status = "ready"
       /\ DOMAIN project[p].jobs = {}
       /\ \A s \in DOMAIN project[p].scenes : project[p].scenes[s].filesize > 0

\* the positions of the split actions of project p in the queue q
SplitsQueued(q, p) ==
  {i \in 1..Len(q) : q[i] = [kind |-> "split", projectid |-> p]}

\* C24: Projects.add of a project whose split directory is absent or empty
\* registers it and appends exactly one split action, leaving it without
\* jobs and with status "starting"; Projects.add of a project with a split
\* directory registers it, appends no split action and runs start() to its
\* end inside the call.  While a split action of a project waits in the
\* queue the project has no jobs.
C24_AddSplitsOrStarts ==
  /\ \A p \in Range(projects) :
       SplitsQueued(action_queue, p) # {}
         => /\ DOMAIN project[p].jobs = {}
            /\ project[p].status = "starting"
            /\ Cardinality(SplitsQueued(action_queue, p)) = 1
  /\ \A p \in Submitted \ Range(projects) :
       \A proj \in NewProjects(p), action \in {"", "act"} :
         LET st == add(St, p, proj, action)
         IN /\ p \in Range(st.projects)
            /\ IF ~fs.split[p]
               THEN /\ st.action_queue
                         = Append(action_queue, [kind |-> "split", projectid |-> p])
                    /\ st.action_lock
                    /\ DOMAIN st.project[p].jobs = {}
                    /\ st.project[p].status = "starting"
               ELSE /\ SplitsQueued(st.action_queue, p) = {}
                    /\ st.project[p].total_jobs = Cardinality(DOMAIN proj.scenes)
                    /\ st.project[p].total_jobs > 0
                    /\ st.project[p].status
                         \in {"ready", "total frame mismatch", "complete"}

\* C24 witness: add has just registered a new project and its split action
\* is the only action in the queue
C24_Witness ==
  /\ projects = <<"p1">>
  /\ action_queue = <<[kind |-> "split", projectid |-> "p1"]>>
  /\ action_lock
  /\ project["p1"].status = "starting"

\* the positions of the completion actions of project p in the queue q
CallbacksQueued(q, p) ==
  {i \in 1..Len(q) : q[i] = [kind |-> "on_complete", projectid |-> p]}

\* C25: a completion action is in the action queue only for a project whose
\* status is "complete" and whose files have been joined into the output;
\* a step in which complete() joins the files and sets "complete" appends
\* the completion action of a project that has one to the queue, where it
\* waits for the action loop, and appends none otherwise.
C25_CallbackQueuedAfterComplete ==
  /\ [](\A p \in Range(projects) :
          CallbacksQueued(action_queue, p) # {}
            => /\ project[p].status = "complete"
               /\ project[p].on_complete
               /\ fs.out[p]
               /\ concat_runs[p] = 1
               /\ Cardinality(CallbacksQueued(action_queue, p)) = 1)
  /\ [][\A p \in Range(projects') :
          (/\ project[p].status # "complete"
           /\ project'[p].status = "complete"
           /\ concat_runs'[p] = concat_runs[p] + 1)
            => IF project'[p].on_complete
               THEN /\ action_queue' # <<>>
                    /\ action_queue'[Len(action_queue')]
                         = [kind |-> "on_complete", projectid |-> p]
               ELSE CallbacksQueued(action_queue', p) = {}]_vars

\* C25 witness: the completion action of a project that the action loop
\* has completed waits in the queue behind the loop's position
C25_Witness ==
  /\ loop_pc = "loop"
  /\ action_queue = <<[kind |-> "on_complete", projectid |-> "p1"]>>
  /\ project["p1"].status = "complete"
  /\ concat_runs["p1"] = 1
  /\ telemetry.encodes # <<>>

\* the threads that are inside start, split, complete or save_projects
Mutating ==
  {t \in Callers : calls[t].pc \in {"save_projects", "start"}}
    \cup (IF loop_pc \in {"action", "save_projects"} THEN {"action_loop"} ELSE {})

\* C26: at most one thread at a time is inside a call that changes the
\* projects or saves them (start, split, complete with concat,
\* save_projects), whether it is the action_loop thread or a thread that
\* called add or check_job.
C26_OneMutator == Cardinality(Mutating) <= 1

\* C27: for the item the upload loop is sending, an answer "saved" ends
\* the item and adds one to completed; an answer "bad upload" is followed
\* by another send while retries are left (3 at the start) and is a failure
\* once they are used up; a connection failure is followed by another send
\* and changes no counter; every other answer ends the item and adds one to
\* failed.
C27_UploadOutcomes ==
  (Client.uploader.pc = "send" /\ Client.uploader.job # <<>>)
    => /\ Client.uploader.uploads \in 0..UploadRetries
       /\ \A r \in Responses :
            LET c == Respond(Client, r)
                ended == [Client EXCEPT !.uploader.pc = "delete"]
            IN IF r = "saved"
               THEN c = [ended EXCEPT !.completed = @ + 1]
               ELSE IF r = "bad upload" /\ Client.uploader.uploads > 0
               THEN c = [Client EXCEPT !.uploader.uploads = @ - 1]
               ELSE IF r = "none"
               THEN c = Client
               ELSE c = [ended EXCEPT !.failed = @ + 1]

\* C28: a Worker that is about to acquire the download lock finds it free,
\* so it never waits for it with the fetch lock in hand; a Worker that found
\* the download lock held has a fetch lock to release, and restarts its loop.
C28_NoBlockOnDownload ==
  \A w \in WorkerIds :
    /\ Client.worker[w].pc = "dl_acquire" => ~Client.download_lock
    /\ Client.worker[w].pc = "busy_release" => Client.lock

\* C29: every "add" (the only step that raises numworkers) raises it by
\* one and returns to the menu with at least numworkers Workers in the pool,
\* whatever the state of the pool, stopped or not.
C29_AddFillsPool ==
  [][Client'.numworkers > Client.numworkers
       => /\ Client'.numworkers = Client.numworkers + 1
          /\ Len(Client'.workers) >= Client'.numworkers
          /\ Client'.key_loop = "run"]_vars

\* the Worker a step kills and removes at once: it was in the pool and not
\* stopped, and is stopped and out of the pool afterwards
KilledBy(v) ==
  /\ v \in Range(Client.workers) /\ ~Client.worker[v].stopped
  /\ v \notin Range(Client'.workers) /\ Client'.worker[v].stopped

\* C30: a "kill" that comes to choose a victim ends with one chosen, the
\* key loop goes on; the victim was not stopped, a Worker with a job is the
\* victim only when every Worker that is not stopped has a job, a Worker in
\* its encode only when all of them are in their encode and none has less
\* progress; the victim is stopped and out of the pool afterwards.
C30_KillSelectsVictim ==
  [][/\ Client'.key_loop # "dead"
     /\ \A v \in WorkerIds :
          KilledBy(v) =>
            \A u \in Range(Client.workers) :
              ~Client.worker[u].stopped =>
                /\ Client.worker[v].job # <<>> => Client.worker[u].job # <<>>
                /\ Client.worker[v].pc = "encode"
                     => /\ Client.worker[u].pc = "encode"
                        /\ Client.worker[v].progress <= Client.worker[u].progress]_vars

\* C31: the step in which fetch_new_job meets another encoder version gives
\* no job to the Worker and takes none from the coordinator, nothing is
\* encoded or queued for upload by it; from then on the client is stopping,
\* every Worker of the pool is marked stopped, and no Worker joins the pool.
C31_VersionStops ==
  /\ [](Client.stopping
          => \A w \in Range(Client.workers) : Client.worker[w].stopped)
  /\ [][/\ (~Client.stopping /\ Client'.stopping)
            => /\ \A w \in WorkerIds :
                    Client'.worker[w].job = Client.worker[w].job
               /\ Client'.coordinator = Client.coordinator
               /\ Client'.outputs = Client.outputs
               /\ Client'.upload_queue = Client.upload_queue
        /\ Client.stopping
            => /\ Client'.stopping
               /\ Range(Client'.workers) \subseteq Range(Client.workers)]_vars

\* the jobs the client has received and not finished uploading: those of
\* the Workers, those queued, and the one the upload thread took from the
\* queue and has no terminal answer for yet
InFlight ==
  UNION {Range(Client.worker[w].job) : w \in WorkerIds}
    \cup Range(Client.upload_queue)
    \cup (IF Client.uploader.pc \in {"mark", "send"}
          THEN Range(Client.uploader.job) ELSE {})

\* C32: at every moment the exclusion list fetch_new_job would build names
\* every job the client has received and not finished uploading.
C32_NoExclusionGap ==
  \A j \in InFlight : JobKey(j) \in Excluded(Client)

\* whether q comes from p by appending at most one action at the end
Appended(p, q) ==
  \/ q = p
  \/ Len(q) = Len(p) + 1 /\ SubSeq(q, 1, Len(p)) = p

\* C33: the action queue changes only by an append at its end or by the
\* loop taking its first action (which may append one in running), and
\* under fair scheduling of the loop every action that waits in the queue
\* is taken from it in the end: the loop does not sleep on a filled queue.
C33_ActionsRunInOrder ==
  /\ [][\/ Appended(action_queue, action_queue')
        \/ /\ action_queue # <<>>
           /\ loop_pc = "loop"
           /\ Appended(Tail(action_queue), action_queue')]_vars
  /\ (action_queue # <<>>) ~> (action_queue = <<>>)

\* C34: no Worker thread is ended by a release of a lock that is not
\* locked; a Worker whose thread has ended holds no download lock; a lock
\* that is locked has a running Worker that is going to release it.
C34_LocksOutliveNoWorker ==
  /\ \A w \in WorkerIds :
       /\ Client.worker[w].pc # "dead"
       /\ Client.worker[w].pc = "done" => ~Client.worker[w].holds_download
  /\ Client.lock => \E w \in WorkerIds : Negotiating(w)
  /\ Client.download_lock
       => \E w \in WorkerIds :
            /\ Client.worker[w].holds_download
            /\ Client.worker[w].pc \notin {"none", "done", "dead"}

\* the items the upload thread has taken and has no terminal answer for
Unanswered == IF Client.uploader.pc \in {"mark", "send"} THEN 1 ELSE 0

\* C35: completed + failed is the number of items taken from the upload
\* queue, less the one in hand that has no terminal answer yet, and neither
\* counter ever goes down: every item taken is counted once, by one of the
\* two counters, before the next one is taken, and with the uploader idle
\* the counters add up to the number of items taken.
C35_EachTakenCountedOnce ==
  /\ [](Client.completed + Client.failed = Len(Client.taken) - Unanswered)
  /\ [][/\ Client'.completed >= Client.completed
        /\ Client'.failed >= Client.failed]_vars

\* C35 witness: the uploader is idle after two items, one saved and one
\* failed
C35_Witness ==
  /\ Client.uploader.pc = "idle"
  /\ Len(Client.taken) = 2
  /\ Client.completed = 1
  /\ Client.failed = 1

====
